---- MODULE Spec2Model ----
(***************************************************************************)
(* Model of the ingestion-and-retrieval pipeline of the MongoDB vector RAG *)
(* server: the embedding service (services/embeddings.py), the vector      *)
(* store (services/mongodb_client.py), the document processor              *)
(* (services/unstructured_client.py) and the tool operations               *)
(* (main.py, tools/vector_search.py).                                      *)
(*                                                                         *)
(* One tool invocation runs at a time, except in the part on concurrent    *)
(* ingests.  An invocation is a sequence of                                *)
(* steps; every request to an outside service (database, embedding         *)
(* provider, generative model) is appended to log, so that "no request     *)
(* was made" is a statement about log.                                     *)
(***************************************************************************)
EXTENDS Integers, Sequences, FiniteSets, TLC

VARIABLES
    db,          \* collection name -> sequence of stored documents
    dbPre,       \* db as it was when the current invocation started
    op,          \* the operation being invoked ("none" when idle)
    req,         \* the arguments of the current invocation
    pc,          \* position of the invocation
    chunks,      \* ingest: the chunks returned by the document processor
    embTexts,    \* generate_embeddings: texts (after the str -> [str] step)
    embBatchSize,\* generate_embeddings: batch_size
    embI,        \* generate_embeddings: loop variable i
    embAll,      \* generate_embeddings: all_embeddings
    log,         \* requests made to outside services by this invocation
    ret,         \* what the invocation returned (or raised) to its caller
    writes,      \* number of insert_many requests the database has received
    searchResults, \* search: what vector_search returned to the tool
    tmp,         \* the files that exist in the scratch directory
    attempts,    \* ingest: the calls of partition made for the document
    elements,    \* ingest: what _partition_document_local returned
    chunking,    \* ingest: the arguments the chunking library was called with
    processor,   \* the settings of the DocumentProcessor of the global
                 \* DocumentIngestionTool (tools/document_processor.py)
    calls,       \* concurrent ingests: the state of each of the two calls
    scratch,     \* concurrent ingests: scratch path -> bytes of the file there
    settings     \* config: the module global _settings, the Settings objects
                 \* constructed, and what get_settings has returned

vars == <<db, dbPre, op, req, pc, chunks, embTexts, embBatchSize, embI,
          embAll, log, ret, writes, searchResults, tmp, attempts, elements,
          chunking, processor, calls, scratch, settings>>

embVars == <<embTexts, embBatchSize, embI, embAll>>

-----------------------------------------------------------------------------
(* Bounds of the model *)

\* most calls of get_settings followed between two resets of the cache
MaxSettingsCalls == 6
\* most Settings objects constructed
MaxSettingsBuilt == 4

\* longest list of texts handed directly to generate_embeddings
MaxTexts == 3
\* largest batch_size argument tried besides the default
MaxBatch == 3
\* most chunks the chunking library returns for an ordinary document
MaxChunks == 2
\* an ingest starts only while the database has received fewer batch inserts
MaxIngests == 1

-----------------------------------------------------------------------------
(* Text.  A Python str is represented by its shape: pre leading whitespace   *)
(* characters, then core characters from the first to the last               *)
(* non-whitespace character, then post trailing whitespace characters; tag   *)
(* tells texts of different wording apart.  A text with core = 0 is empty or *)
(* whitespace-only and is written with tag "" and post = 0.                  *)

NoTag == ""

Text(tag, pre, core, post) ==
    [tag |-> tag, pre |-> pre, core |-> core, post |-> post]

\* len(text)
TextLen(t) == t.pre + t.core + t.post

\* text.strip()
Strip(t) ==
    IF t.core = 0 THEN Text(NoTag, 0, 0, 0)
    ELSE Text(t.tag, 0, t.core, 0)

\* the truth value of a str: non-empty
Truthy(t) == TextLen(t) > 0

\* text[:n]
Prefix(t, n) ==
    IF n >= TextLen(t) THEN t
    ELSE IF n <= t.pre THEN Text(NoTag, n, 0, 0)
    ELSE IF n <= t.pre + t.core THEN Text(t.tag, t.pre, n - t.pre, 0)
    ELSE Text(t.tag, t.pre, t.core, n - t.pre - t.core)

\* the character limit applied to every text before submission
MaxEmbedChars == 8000

\* the default batch_size of generate_embeddings
DefaultBatchSize == 100

EmptyText == Text(NoTag, 0, 0, 0)
BlankText == Text(NoTag, 3, 0, 0)
TextA     == Text("a", 0, 1, 0)
TextB     == Text("b", 1, 2, 1)
LongText  == Text("c", 1, MaxEmbedChars + 1, 0)
MidText   == Text("m", 0, 600, 0)

\* the texts inputs are drawn from
Texts == {EmptyText, BlankText, TextA, TextB, LongText}

Min(a, b) == IF a <= b THEN a ELSE b

\* all sequences over S of length at most n
SeqsUpTo(S, n) == UNION {[1..k -> S] : k \in 0..n}

-----------------------------------------------------------------------------
(* The embedding provider.  The vector of a text is a function of the text  *)
(* submitted; a response carries one vector per input, in input order.  A   *)
(* faulty response lacks its last vector, and a failed request raises.      *)

Vec(t) == [of |-> t]

ProviderOutcomes == {"ok", "short", "error"}

\* response.data of embeddings.create(input = texts)
ProviderData(texts, outcome) ==
    LET n == IF outcome = "short" THEN Len(texts) - 1 ELSE Len(texts)
    IN  [k \in 1..n |-> Vec(texts[k])]

-----------------------------------------------------------------------------
(* EmbeddingService.generate_embeddings *)

\* (mutant) a slice one text too long
BatchSlice_TooLong(texts, i, batchSize) ==
    SubSeq(texts, i + 1, Min(i + batchSize + 1, Len(texts)))

\* batch = texts[i : i + batch_size]
BatchSlice(texts, i, batchSize) ==
    SubSeq(texts, i + 1, Min(i + batchSize, Len(texts)))

\* (mutant) cut to 8000 characters first, trimmed afterwards
CleanText_CutFirst(t) == Strip(Prefix(t, MaxEmbedChars))

\* text.strip()[:8000]
CleanText(t) == Prefix(Strip(t), MaxEmbedChars)

\* (mutant) the emptiness test made before trimming
KeepText_NoStrip(t) == Truthy(t)

\* isinstance(text, str) and text.strip()
KeepText(t) == Truthy(Strip(t))

\* the clean_batch built from batch
CleanBatch(batch) ==
    LET kept == SelectSeq(batch, KeepText)
    IN  [k \in 1..Len(kept) |-> CleanText(kept[k])]

\* (mutant) the batch's vectors put in front
Extend_Prepend(all, batchEmbeddings) == batchEmbeddings \o all

\* all_embeddings.extend(batch_embeddings)
Extend(all, batchEmbeddings) == all \o batchEmbeddings

\* if isinstance(texts, str): texts = [texts]
AsList(input) ==
    IF input.kind = "str" THEN <<input.value>> ELSE input.value

EmbedInputs ==
    {[kind |-> "str", value |-> t] : t \in Texts}
    \cup {[kind |-> "list", value |-> s] : s \in SeqsUpTo(Texts, MaxTexts)}

BatchSizes == (1..MaxBatch) \cup {DefaultBatchSize}

NoReq == [none |-> TRUE]
NoRet == [kind |-> "none"]

\* no list of elements: partition has not returned one
NoElements == [by |-> "none"]

\* the chunking library has not been called
NoChunking == [none |-> TRUE]

\* config._settings is None
NoSettings == 0

\* the configuration module as loaded: nothing cached, no Settings object
\* constructed, get_settings not called
NoSettingsYet == [cached |-> NoSettings, built |-> 0, builtSinceReset |-> 0,
                  returned |-> <<>>]

\* no concurrent calls are followed; an empty scratch directory
NoCalls == <<>>
NoFiles == <<>>

\* A direct call generate_embeddings(texts, batch_size)
EmbedCall ==
    /\ pc = "idle"
    /\ \E input \in EmbedInputs, bs \in BatchSizes :
         /\ op' = "embed"
         /\ req' = [texts |-> input, batch_size |-> bs]
         /\ dbPre' = db
         /\ log' = <<>>
         /\ embTexts' = AsList(input)
         /\ embBatchSize' = bs
         /\ embI' = 0
         /\ embAll' = <<>>
         /\ IF AsList(input) = <<>>
            THEN /\ pc' = "done"
                 /\ ret' = [kind |-> "value", value |-> <<>>]
            ELSE /\ pc' = "embed_loop"
                 /\ ret' = NoRet
    /\ UNCHANGED <<db, chunks, writes, searchResults, tmp, attempts, elements, chunking, processor, calls, scratch, settings>>

\* One iteration of the loop over range(0, len(texts), batch_size)
EmbedBatch ==
    /\ pc = "embed_loop"
    /\ embI < Len(embTexts)
    /\ LET batch == BatchSlice(embTexts, embI, embBatchSize)
           clean == CleanBatch(batch)
       IN  IF clean = <<>>
           THEN /\ embI' = embI + embBatchSize
                /\ UNCHANGED <<pc, embAll, log>>
           ELSE \E outcome \in ProviderOutcomes :
                  /\ log' = Append(log, [kind |-> "embeddings.create",
                                         input |-> clean,
                                         outcome |-> outcome])
                  /\ IF outcome = "error"
                     THEN /\ pc' = "embed_raised"
                          /\ UNCHANGED <<embI, embAll>>
                     ELSE /\ embAll' = Extend(embAll, ProviderData(clean, outcome))
                          /\ embI' = embI + embBatchSize
                          /\ pc' = pc
    /\ UNCHANGED <<db, dbPre, op, req, chunks, embTexts, embBatchSize, ret, writes, searchResults, tmp, attempts, elements, chunking, processor, calls, scratch, settings>>

\* The loop is over: return all_embeddings
EmbedReturn ==
    /\ pc = "embed_loop"
    /\ embI >= Len(embTexts)
    /\ pc' = "embed_returned"
    /\ UNCHANGED <<db, dbPre, op, req, chunks, embVars, log, ret, writes, searchResults, tmp, attempts, elements, chunking, processor, calls, scratch, settings>>

\* (mutant) a provider failure swallowed: the vectors gathered so far returned
EmbedFinish_Partial ==
    /\ op = "embed"
    /\ pc \in {"embed_returned", "embed_raised"}
    /\ pc' = "done"
    /\ ret' = [kind |-> "value", value |-> embAll]
    /\ UNCHANGED <<db, dbPre, op, req, chunks, embVars, log, writes, searchResults, tmp, attempts, elements, chunking, processor, calls, scratch, settings>>

\* The direct caller receives the list, or the exception
EmbedFinish ==
    /\ op = "embed"
    /\ pc \in {"embed_returned", "embed_raised"}
    /\ pc' = "done"
    /\ ret' = IF pc = "embed_returned"
              THEN [kind |-> "value", value |-> embAll]
              ELSE [kind |-> "raised", error |-> "provider"]
    /\ UNCHANGED <<db, dbPre, op, req, chunks, embVars, log, writes, searchResults, tmp, attempts, elements, chunking, processor, calls, scratch, settings>>

\* The invocation is over; the next one may start
Reset ==
    /\ pc = "done"
    /\ pc' = "idle"
    /\ op' = "none"
    /\ req' = NoReq
    /\ ret' = NoRet
    /\ log' = <<>>
    /\ chunks' = <<>>
    /\ embTexts' = <<>>
    /\ embBatchSize' = DefaultBatchSize
    /\ embI' = 0
    /\ embAll' = <<>>
    /\ dbPre' = db
    /\ searchResults' = <<>>
    /\ attempts' = <<>>
    /\ elements' = NoElements
    /\ chunking' = NoChunking
    /\ UNCHANGED <<db, writes, tmp, processor, calls, scratch, settings>>

Collections == {"documents", "contract_analysis"}

-----------------------------------------------------------------------------
(* Metadata.  A dict is a function from keys to values; a value is tagged   *)
(* with its type so that values of different types can be compared.         *)

I(n) == <<"int", n>>
S(s) == <<"str", s>>

NoMeta == <<>>

\* d.update(u), {**d, **u}
Update(d, u) == u @@ d

\* the truth value of a dict: non-empty (None is written NoMeta)
TruthyDict(d) == DOMAIN d # {}

-----------------------------------------------------------------------------
(* DocumentProcessor *)

DefaultMaxChunkSize == 1000
DefaultChunkOverlap == 200

\* the max_chunk_size and chunk_overlap arguments tried besides the defaults
SmallChunkSize == 500
LargeChunkSize == 9000
NoOverlap == 0

ChunkSizes == {SmallChunkSize, DefaultMaxChunkSize, LargeChunkSize}
ChunkOverlaps == {NoOverlap, DefaultChunkOverlap}

\* the implementations of the ingest_document tool: main.py, and
\* tools/document_processor.py with its module-level DocumentIngestionTool
IngestImpls == {"main", "tool"}

\* DocumentProcessor.__init__: max_chunk_size and chunk_overlap of the settings
DefaultProcessor ==
    [max_chunk_size |-> DefaultMaxChunkSize, chunk_overlap |-> DefaultChunkOverlap]

\* (mutant) the arguments are not handed to the processor
UpdateProcessor_Never(proc, maxChunkSize, chunkOverlap) == proc

\* "Update processor settings if provided": an argument that differs from
\* the settings' value is assigned to the processor
UpdateProcessor(proc, maxChunkSize, chunkOverlap) ==
    [max_chunk_size |-> IF maxChunkSize # DefaultMaxChunkSize
                        THEN maxChunkSize ELSE proc.max_chunk_size,
     chunk_overlap |-> IF chunkOverlap # DefaultChunkOverlap
                       THEN chunkOverlap ELSE proc.chunk_overlap]

\* the processor an invocation works with: main.py constructs one, the tool
\* object keeps the one it constructed when the module was loaded
ProcessorOf(impl, shared, maxChunkSize, chunkOverlap) ==
    UpdateProcessor(IF impl = "main" THEN DefaultProcessor ELSE shared,
                    maxChunkSize, chunkOverlap)

\* Document references: name is the string given by the caller, file the
\* last path component, local the path of the file that is partitioned (the
\* scratch file for a URL)
DocRefs ==
    { [name |-> "",                         kind |-> "blank",
       file |-> "",             local |-> ""],
      [name |-> "/data/report.txt",         kind |-> "path",
       file |-> "report.txt",   local |-> "/data/report.txt"],
      [name |-> "https://host/contract.pdf", kind |-> "url",
       file |-> "contract.pdf", local |-> "/tmp/contract.pdf"] }

\* document_url.strip() is empty
BlankRef(ref) == ref.kind = "blank"

\* DocumentProcessor.is_url
IsUrl(ref) == ref.kind = "url"

Strategies == {"by_title", "basic"}

\* metadata_fields given by the caller (None is NoMeta)
MetaInputs ==
    { NoMeta,
      "user_id" :> S("u1"),
      ("chunk_index" :> I(7)) @@ ("document_url" :> S("elsewhere")) }

\* str(chunk) of the chunks the chunking library returns: any sequence of
\* blank and non-blank texts, among them one longer than the character limit
\* and one of more chunks than the default batch holds
RawTexts == {BlankText, TextA}

BigRaw == [k \in 1..(DefaultBatchSize + 1) |-> IF k % 2 = 1 THEN TextA ELSE TextB]

\* w is the number of batch inserts made so far: the documents of several
\* chunks are ingested only as the first, a later one has at most one
\* chunk.  The chunking library is called with max_characters =
\* maxCharacters and returns no chunk longer than that
RawChunkSeqs(w, maxCharacters) ==
    {raw \in (IF w = 0
              THEN SeqsUpTo(RawTexts, MaxChunks)
                     \cup {<<TextB>>, <<TextA, TextB>>, <<LongText, TextA>>,
                           <<MidText>>, BigRaw}
              ELSE SeqsUpTo(RawTexts \cup {TextB}, 1)) :
        \A k \in 1..Len(raw) : TextLen(raw[k]) <= maxCharacters}

\* chunk.metadata.to_dict() of a library chunk
LibraryMetadata(ref) == "filename" :> S(ref.file)

\* the metadata dict built for the chunk at position i (from 0) of the
\* library's output
ChunkMetadata(content, i, strategy, ref) ==
    Update(("chunk_index" :> I(i))
             @@ ("chunking_strategy" :> S(strategy))
             @@ ("chunk_size" :> I(TextLen(content))),
           LibraryMetadata(ref))

\* (mutant) a chunk whose stripped text is empty is kept
ChunkElements_KeepBlank(raw, strategy, ref) ==
    [k \in 1..Len(raw) |->
        [content |-> Strip(raw[k]),
         metadata |-> ChunkMetadata(Strip(raw[k]), k - 1, strategy, ref)]]

\* DocumentProcessor._chunk_elements: the loop over enumerate(chunks), which
\* skips a chunk whose stripped text is empty
ChunkElements(raw, strategy, ref) ==
    LET positions == SelectSeq([k \in 1..Len(raw) |-> k - 1],
                               LAMBDA i : Truthy(Strip(raw[i + 1])))
    IN  [k \in 1..Len(positions) |->
            LET i == positions[k]
                content == Strip(raw[i + 1])
            IN  [content |-> content,
                 metadata |-> ChunkMetadata(content, i, strategy, ref)]]

\* the source-document metadata process_document adds to every chunk
FileMetadata(ref) ==
    ("source_file" :> S(ref.file))
      @@ ("source_path" :> S(ref.local))
      @@ ("file_size" :> I(0))
      @@ ("processing_timestamp" :> S("cwd"))

\* DocumentProcessor.process_document, partition and chunking having succeeded
ProcessDocument(raw, strategy, ref, additional) ==
    LET cs == ChunkElements(raw, strategy, ref)
    IN  [k \in 1..Len(cs) |->
            [content |-> cs[k].content,
             metadata |->
                Update(IF TruthyDict(additional)
                       THEN Update(cs[k].metadata, additional)
                       ELSE cs[k].metadata,
                       FileMetadata(ref))]]

\* DocumentProcessor.process_document_from_url: url_metadata
UrlMetadata(ref, additional) ==
    IF TruthyDict(additional)
    THEN Update("source_url" :> S(ref.name), additional)
    ELSE "source_url" :> S(ref.name)

\* str(file_path).lower().endswith('.pdf')
IsPdf(ref) == ref.file = "contract.pdf"

\* DocumentProcessor.download_document: the request failed and nothing was
\* written, the file was opened for writing and the write failed, or the
\* file was written
DownloadOutcomes == {"ok", "request_failed", "write_failed"}

\* the download created (or truncated) the scratch file
Wrote(download) == download \in {"ok", "write_failed"}

\* what download_document returns: the path of the scratch file, or nothing
\* when it raised
NoFile == ""
DownloadDocument(ref, download) == IF download = "ok" THEN ref.local ELSE NoFile

\* the strategies _partition_document_local passes to partition, in the
\* order of its nested try blocks
PartitionStrategies(ref) ==
    IF IsPdf(ref) THEN <<"hi_res", "fast", "auto">> ELSE <<"auto">>

PartitionOutcomes == {"ok", "error"}

\* what the partitioning library would answer to each strategy
PartitionAnswers(ref) ==
    [1..Len(PartitionStrategies(ref)) -> PartitionOutcomes]

\* the list of elements partition returns for a strategy
Elements(strategy) == [by |-> strategy]

\* (mutant) the strategies are tried in the order fast, hi_res, auto
PartitionDocumentLocal_FastFirst(ref, answers) ==
    LET strategies == PartitionStrategies(ref)
        order == IF Len(strategies) = 1 THEN <<1>> ELSE <<2, 1, 3>>
        ok == {k \in 1..Len(order) : answers[order[k]] = "ok"}
        last == IF ok = {} THEN Len(order)
                ELSE CHOOSE k \in ok : \A j \in ok : k <= j
    IN  [attempts |-> [k \in 1..last |->
                         [strategy |-> strategies[order[k]],
                          outcome |-> answers[order[k]]]],
         elements |-> IF ok = {} THEN NoElements
                      ELSE Elements(strategies[order[last]])]

\* DocumentProcessor._partition_document_local: the calls of partition it
\* makes and the elements it returns (NoElements when it raises)
PartitionDocumentLocal(ref, answers) ==
    LET strategies == PartitionStrategies(ref)
        ok == {k \in 1..Len(strategies) : answers[k] = "ok"}
        last == IF ok = {} THEN Len(strategies)
                ELSE CHOOSE k \in ok : \A j \in ok : k <= j
    IN  [attempts |-> [k \in 1..last |->
                         [strategy |-> strategies[k], outcome |-> answers[k]]],
         elements |-> IF ok = {} THEN NoElements
                      ELSE Elements(strategies[last])]

UnlinkOutcomes == {"ok", "error"}

\* the finally block of process_document_from_url: the scratch directory
\* after it, temp_file being what download_document returned
Cleanup(files, tempFile, unlink) ==
    IF tempFile # NoFile /\ tempFile \in files /\ unlink = "ok"
    THEN files \ {tempFile}
    ELSE files

\* what can happen while a document is fetched, partitioned and chunked
ProcessOutcomes(ref) ==
    IF IsUrl(ref)
    THEN {"ok", "download_failed", "partition_failed", "chunking_failed"}
    ELSE {"ok", "not_found", "partition_failed", "chunking_failed"}

-----------------------------------------------------------------------------
(* MongoDBVectorStore *)

ConnectOutcomes == {"ok", "error"}

\* (mutant) the chunk's own metadata applied after the position
DocMetadata_ChunkLast(chunkMeta, i, coll, sourceMeta) ==
    Update(Update(("chunk_index" :> I(i)) @@ ("collection_name" :> S(coll)),
                  chunkMeta),
           sourceMeta)

\* (mutant) the source metadata applied first
DocMetadata_SourceFirst(chunkMeta, i, coll, sourceMeta) ==
    Update(Update(chunkMeta, sourceMeta),
           ("chunk_index" :> I(i)) @@ ("collection_name" :> S(coll)))

\* the "metadata" of the document built for the chunk at position i (from 0)
DocMetadata(chunkMeta, i, coll, sourceMeta) ==
    Update(Update(chunkMeta,
                  ("chunk_index" :> I(i)) @@ ("collection_name" :> S(coll))),
           sourceMeta)

\* the documents store_embeddings prepares for insertion
StoreDocuments(dchunks, coll, sourceMeta) ==
    [k \in 1..Len(dchunks) |->
        [content |-> dchunks[k].content,
         embedding |-> dchunks[k].embedding,
         metadata |-> DocMetadata(dchunks[k].metadata, k - 1, coll, sourceMeta)]]

\* how many documents of an ordered insert_many of n documents can be in the
\* collection when it raises: none, one, or all but the last
WrittenOnFailure(n) == {k \in 0..(n - 1) : k <= 1 \/ k = n - 1}

\* the result of store_embeddings when insert_many succeeded
StoreSuccess(coll, n) ==
    [success |-> TRUE, collection_name |-> coll, chunks_stored |-> n]

\* the result of store_embeddings when insert_many raised a PyMongoError
StoreFailure(coll) ==
    [success |-> FALSE, collection_name |-> coll, chunks_stored |-> 0]

-----------------------------------------------------------------------------
(* ingest_document (main.py) *)

EmbeddingModel == "text-embedding-ada-002"

\* The arguments of ingest calls: every reference with every metadata_fields
\* for the default collection and strategy, and every collection and strategy
\* for a local path without metadata_fields
IngestRequests ==
    {r \in [document_url : DocRefs,
            collection_name : Collections,
            chunking_strategy : Strategies,
            metadata_fields : MetaInputs,
            max_chunk_size : {DefaultMaxChunkSize, LargeChunkSize},
            chunk_overlap : {DefaultChunkOverlap},
            impl : {"main"}] :
        /\ \/ r.collection_name = "documents" /\ r.chunking_strategy = "by_title"
           \/ r.metadata_fields = NoMeta /\ r.document_url.kind = "path"
        /\ \/ r.max_chunk_size = DefaultMaxChunkSize
           \/ /\ r.collection_name = "documents"
              /\ r.chunking_strategy = "by_title"
              /\ r.metadata_fields = NoMeta
              /\ r.document_url.kind = "path"}

\* calls of either implementation with every size and overlap, of the
\* local document, without extra metadata
SizedRequests ==
    {r \in [document_url : {ref \in DocRefs : ref.kind = "path"},
            collection_name : {"documents"},
            chunking_strategy : Strategies,
            metadata_fields : {NoMeta},
            max_chunk_size : ChunkSizes,
            chunk_overlap : ChunkOverlaps,
            impl : IngestImpls] :
        r.chunk_overlap = DefaultChunkOverlap \/ r.chunking_strategy = "basic"}

\* (mutant) the count check left out
CountMismatch_Never(embeddings, cs) == FALSE

\* len(embeddings) != len(chunks)
CountMismatch(embeddings, cs) == Len(embeddings) # Len(cs)

\* (mutant) the vectors paired from the other end
ZipChunks_Reversed(cs, embeddings) ==
    LET n == Min(Len(cs), Len(embeddings))
    IN  [k \in 1..n |->
            [content |-> cs[k].content,
             embedding |-> embeddings[n + 1 - k],
             metadata |-> cs[k].metadata]]

\* the DocumentChunk objects built from zip(chunks, embeddings)
ZipChunks(cs, embeddings) ==
    [k \in 1..Min(Len(cs), Len(embeddings)) |->
        [content |-> cs[k].content,
         embedding |-> embeddings[k],
         metadata |-> cs[k].metadata]]

\* source_metadata of an ingest call
SourceMetadata(r, n) ==
    LET base == ("document_url" :> S(r.document_url.name))
                  @@ ("chunking_strategy" :> S(r.chunking_strategy))
                  @@ ("embedding_model" :> S(EmbeddingModel))
                  @@ ("total_chunks" :> I(n))
    IN  IF TruthyDict(r.metadata_fields)
        THEN Update(base, r.metadata_fields)
        ELSE base

IngestError(e) == [kind |-> "error", error |-> e]

\* ingest_document up to the return of the document processor: the services
\* are constructed (the store connects and checks the server), the reference
\* is validated, the document is processed into chunks
IngestCallFrom(requests) ==
    /\ pc = "idle"
    /\ writes < MaxIngests
    /\ \E r \in requests :
       \E conn \in (IF r.impl = "main" THEN ConnectOutcomes ELSE {"ok"}) :
       \E outcome \in (IF conn = "ok" /\ ~BlankRef(r.document_url)
                       THEN ProcessOutcomes(r.document_url) ELSE {"ok"}) :
       \E raw \in (IF conn = "ok" /\ ~BlankRef(r.document_url) /\ outcome = "ok"
                   THEN RawChunkSeqs(writes,
                           ProcessorOf(r.impl, processor, r.max_chunk_size,
                                       r.chunk_overlap).max_chunk_size)
                   ELSE {<<>>}) :
       \E download \in (IF outcome = "download_failed"
                        THEN DownloadOutcomes \ {"ok"} ELSE {"ok"}),
          answers \in {a \in PartitionAnswers(r.document_url) :
                          IF outcome \in {"ok", "chunking_failed"}
                          THEN \E k \in DOMAIN a : a[k] = "ok"
                          ELSE \A k \in DOMAIN a : a[k] = "error"},
          unlink \in (IF conn = "ok" /\ IsUrl(r.document_url)
                         /\ outcome # "download_failed"
                      THEN UnlinkOutcomes ELSE {"ok"}) :
         LET ref == r.document_url
             started == conn = "ok" /\ ~BlankRef(ref)
             partitioned == started /\ outcome \in {"ok", "partition_failed",
                                                      "chunking_failed"}
             part == PartitionDocumentLocal(ref, answers)
             proc == ProcessorOf(r.impl, processor, r.max_chunk_size,
                                 r.chunk_overlap)
             connect == [kind |-> "connect", outcome |-> conn]
             fetch == [kind |-> "download",
                       outcome |-> IF download = "ok" THEN "ok" ELSE "error",
                       wrote |-> Wrote(download)]
             made == (IF r.impl = "main" THEN <<connect>> ELSE <<>>)
                        \o (IF IsUrl(ref) THEN <<fetch>> ELSE <<>>)
             opened == IF r.impl = "main" THEN <<connect>> ELSE <<>>
             cs == ProcessDocument(raw, r.chunking_strategy, ref,
                      IF IsUrl(ref) THEN UrlMetadata(ref, r.metadata_fields)
                      ELSE r.metadata_fields)
             finish(result, sent) ==
                 /\ pc' = "done"
                 /\ ret' = result
                 /\ log' = sent
                 /\ chunks' = <<>>
                 /\ embTexts' = <<>>
         IN  /\ op' = "ingest"
             /\ req' = r
             /\ dbPre' = db
             /\ embBatchSize' = DefaultBatchSize
             /\ embI' = 0
             /\ embAll' = <<>>
             /\ tmp' = IF started /\ IsUrl(ref)
                       THEN Cleanup(IF Wrote(download) THEN tmp \cup {ref.local}
                                    ELSE tmp,
                                    DownloadDocument(ref, download), unlink)
                       ELSE tmp
             /\ attempts' = IF partitioned THEN part.attempts ELSE <<>>
             /\ elements' = IF partitioned THEN part.elements ELSE NoElements
             /\ chunking' = IF started /\ outcome \in {"ok", "chunking_failed"}
                            THEN [max_characters |-> proc.max_chunk_size,
                                  overlap |-> proc.chunk_overlap]
                            ELSE NoChunking
             /\ processor' = IF started /\ r.impl = "tool" THEN proc
                             ELSE processor
             /\ IF conn = "error" THEN finish(IngestError("connect"), opened)
                ELSE IF BlankRef(ref)
                THEN finish(IngestError("validation"), opened)
                ELSE IF outcome # "ok"
                THEN finish(IngestError(outcome), made)
                ELSE /\ pc' = "processed"
                     /\ ret' = NoRet
                     /\ log' = made
                     /\ chunks' = cs
                     /\ embTexts' = <<>>
    /\ UNCHANGED <<db, writes, searchResults, calls, scratch, settings>>

\* ingest_document of main.py, with the requests of the ingest specification
IngestCall == IngestCallFrom(IngestRequests)

\* ingest_document of either implementation
SizedIngestCall == IngestCallFrom(SizedRequests)


\* ingest_document once the document processor has returned the chunks: no
\* chunk is reported as no content, otherwise generate_embeddings is called
\* with the chunks' contents.  What the processor kept while it ran (the
\* calls of partition, the elements) is gone with it
IngestEmbed ==
    /\ op = "ingest"
    /\ pc = "processed"
    /\ IF chunks = <<>>
       THEN /\ pc' = "done"
            /\ ret' = [kind |-> "no_content"]
            /\ embTexts' = <<>>
       ELSE /\ pc' = "embed_loop"
            /\ ret' = NoRet
            /\ embTexts' = [k \in 1..Len(chunks) |-> chunks[k].content]
    /\ attempts' = <<>>
    /\ elements' = NoElements
    /\ chunking' = NoChunking
    /\ UNCHANGED <<db, dbPre, op, req, chunks, embBatchSize, embI, embAll, log,
                   writes, searchResults, tmp, processor, calls, scratch, settings>>

\* (mutant) a document whose content the collection already holds is not
\* written again
InsertMany_SkipKnown(stored, docs) ==
    stored \o SelectSeq(docs, LAMBDA d :
                 \A k \in 1..Len(stored) : stored[k].content # d.content)

\* collection.insert_many(documents): the collection after it
InsertMany(stored, docs) == stored \o docs

\* ingest_document after generate_embeddings: the count check, the zip, the
\* call of store_embeddings and the report
IngestStore ==
    /\ op = "ingest"
    /\ pc \in {"embed_returned", "embed_raised"}
    /\ pc' = "done"
    /\ IF pc = "embed_raised"
       THEN /\ ret' = IngestError("provider")
            /\ UNCHANGED <<db, log, writes>>
       ELSE IF CountMismatch(embAll, chunks)
       THEN /\ ret' = IngestError("count_mismatch")
            /\ UNCHANGED <<db, log, writes>>
       ELSE LET coll == req.collection_name
                dchunks == ZipChunks(chunks, embAll)
                docs == StoreDocuments(dchunks, coll,
                                       SourceMetadata(req, Len(dchunks)))
            IN  /\ writes' = writes + 1
                /\ \/ /\ db' = [db EXCEPT ![coll] = InsertMany(@, docs)]
                      /\ log' = Append(log, [kind |-> "insert_many",
                                             n |-> Len(docs), outcome |-> "ok"])
                      /\ ret' = [kind |-> "success",
                                 storage |-> StoreSuccess(coll, Len(docs)),
                                 chunks |-> Len(chunks),
                                 embeddings |-> Len(embAll)]
                   \/ \E k \in WrittenOnFailure(Len(docs)) :
                      /\ db' = [db EXCEPT ![coll] = InsertMany(@, SubSeq(docs, 1, k))]
                      /\ log' = Append(log, [kind |-> "insert_many",
                                             n |-> Len(docs), outcome |-> "error"])
                      /\ ret' = [kind |-> "failed",
                                 storage |-> StoreFailure(coll),
                                 chunks |-> Len(chunks)]
    /\ UNCHANGED <<dbPre, op, req, chunks, embVars, searchResults, tmp, attempts, elements, chunking, processor, calls, scratch, settings>>

-----------------------------------------------------------------------------
\* The database outlives the server: it is empty, or holds a document that an
\* earlier ingest stored
SeedRequest ==
    [document_url |-> CHOOSE ref \in DocRefs : ref.kind = "path",
     collection_name |-> "documents",
     chunking_strategy |-> "by_title",
     metadata_fields |-> NoMeta,
     max_chunk_size |-> DefaultMaxChunkSize,
     chunk_overlap |-> DefaultChunkOverlap,
     impl |-> "main"]

SeedDocuments ==
    LET cs == ProcessDocument(<<TextB>>, SeedRequest.chunking_strategy,
                              SeedRequest.document_url, NoMeta)
    IN  StoreDocuments(ZipChunks(cs, <<Vec(CleanText(TextB))>>),
                       SeedRequest.collection_name,
                       SourceMetadata(SeedRequest, 1))

InitialDbs ==
    { [c \in Collections |-> <<>>],
      [c \in Collections |->
          IF c = SeedRequest.collection_name THEN SeedDocuments ELSE <<>>] }

Init ==
    /\ db \in InitialDbs
    /\ dbPre = db
    /\ op = "none"
    /\ req = NoReq
    /\ pc = "idle"
    /\ chunks = <<>>
    /\ embTexts = <<>>
    /\ embBatchSize = DefaultBatchSize
    /\ embI = 0
    /\ embAll = <<>>
    /\ log = <<>>
    /\ ret = NoRet
    /\ writes = 0
    /\ searchResults = <<>>
    /\ tmp = {}
    /\ attempts = <<>>
    /\ elements = NoElements
    /\ chunking = NoChunking
    /\ processor = DefaultProcessor
    /\ calls = NoCalls
    /\ scratch = NoFiles
    /\ settings = NoSettingsYet

\* Direct use of the embedding service
EmbedNext ==
    \/ EmbedCall
    \/ EmbedBatch
    \/ EmbedReturn
    \/ EmbedFinish
    \/ Reset

EmbedSpec == Init /\ [][EmbedNext]_vars

\* The ingest tool
IngestNext ==
    \/ IngestCall
    \/ IngestEmbed
    \/ EmbedBatch
    \/ EmbedReturn
    \/ IngestStore
    \/ Reset

IngestSpec == Init /\ [][IngestNext]_vars

\* The ingest tool in both implementations, called with sizes and overlaps
ProcessorNext ==
    \/ SizedIngestCall
    \/ IngestEmbed
    \/ EmbedBatch
    \/ EmbedReturn
    \/ IngestStore
    \/ Reset

ProcessorSpec == Init /\ [][ProcessorNext]_vars

-----------------------------------------------------------------------------
(* MongoDBVectorStore.vector_search: the aggregation pipeline and what the  *)
(* database answers.  Scores and thresholds are counted in tenths, so 7     *)
(* stands for 0.7.  A metadata filter maps field paths to values; the path  *)
(* <<"metadata", "user_id">> stands for the key "metadata.user_id".         *)

\* the vectorSearchScore of a stored embedding for a query vector: high for
\* the vector of the same text, middling for another one
Score(queryVector, embedding) ==
    IF queryVector.of.tag = embedding.of.tag THEN 9 ELSE 5

\* generate_single_embedding returned [] (the provider sent no vector)
NoVector == <<>>

\* similarity_threshold as a condition: 0.0 counts as not given
TruthyNumber(x) == x # 0

\* list.insert(idx, x)
InsertAt(seq, idx, x) ==
    SubSeq(seq, 1, idx) \o <<x>> \o SubSeq(seq, idx + 1, Len(seq))

VectorSearchStage(queryVector, limit) ==
    [stage |-> "$vectorSearch",
     arg |-> [index |-> "vector_index",
              path |-> "embedding",
              queryVector |-> queryVector,
              numCandidates |-> limit * 10,
              limit |-> limit]]

AddFieldsStage == [stage |-> "$addFields", arg |-> "similarity_score"]

MatchStage(filter) == [stage |-> "$match", arg |-> filter]

\* (mutant) the minimum score itself excluded: $gt in place of $gte
ThresholdFilter_Above(threshold) ==
    <<"similarity_score">> :> <<"$gte", threshold + 1>>

\* the condition of the minimum-score $match
ThresholdFilter(threshold) == <<"similarity_score">> :> <<"$gte", threshold>>

ProjectFields == {"content", "metadata", "similarity_score"}

ProjectStage == [stage |-> "$project", arg |-> ProjectFields]

\* (mutant) the metadata filter placed after the score is attached
BuildPipeline_FilterAfterScore(queryVector, limit, threshold, filter) ==
    LET base == <<VectorSearchStage(queryVector, limit), AddFieldsStage>>
        filtered == IF TruthyDict(filter)
                    THEN Append(base, MatchStage(filter))
                    ELSE base
        scored == IF TruthyNumber(threshold)
                  THEN Append(filtered, MatchStage(ThresholdFilter(threshold)))
                  ELSE filtered
    IN  Append(scored, ProjectStage)

\* the pipeline as vector_search builds it
BuildPipeline(queryVector, limit, threshold, filter) ==
    LET base == <<VectorSearchStage(queryVector, limit), AddFieldsStage>>
        filtered == IF TruthyDict(filter)
                    THEN InsertAt(base, 1, MatchStage(filter))
                    ELSE base
        scored == IF TruthyNumber(threshold)
                  THEN Append(filtered, MatchStage(ThresholdFilter(threshold)))
                  ELSE filtered
    IN  Append(scored, ProjectStage)

\* --- the database's evaluation of such a pipeline ---

\* a document in the pipeline: its fields and its vectorSearchScore
Scored(docs, queryVector) ==
    [k \in 1..Len(docs) |->
        [doc |-> docs[k], score |-> Score(queryVector, docs[k].embedding)]]

\* how many items come before item k by descending score
Rank(items, k) ==
    Cardinality({j \in 1..Len(items) :
                    \/ items[j].score > items[k].score
                    \/ items[j].score = items[k].score /\ j < k})

SortByScore(items) ==
    [r \in 1..Len(items) |->
        items[CHOOSE k \in 1..Len(items) : Rank(items, k) = r - 1]]

\* (mutant) every document of the collection retrieved, not the limit best
NearestNeighbours_All(docs, arg) ==
    SortByScore(Scored(docs, arg.queryVector))

\* $vectorSearch: the limit best of the numCandidates nearest documents
NearestNeighbours(docs, arg) ==
    LET sorted == SortByScore(Scored(docs, arg.queryVector))
    IN  SubSeq(sorted, 1, Min(Len(sorted), Min(arg.numCandidates, arg.limit)))

HasPath(doc, path) ==
    /\ path[1] \in DOMAIN doc
    /\ Len(path) > 1 => path[2] \in DOMAIN doc[path[1]]

Resolve(doc, path) ==
    IF Len(path) > 1 THEN doc[path[1]][path[2]] ELSE doc[path[1]]

\* (mutant) the comparison of {"$gte": n} turned round
Satisfies_Below(doc, path, cond) ==
    /\ HasPath(doc, path)
    /\ IF cond[1] = "$gte"
       THEN Resolve(doc, path) <= cond[2]
       ELSE Resolve(doc, path) = cond

\* one condition of a $match: equality, or {"$gte": n}
Satisfies(doc, path, cond) ==
    /\ HasPath(doc, path)
    /\ IF cond[1] = "$gte"
       THEN Resolve(doc, path) >= cond[2]
       ELSE Resolve(doc, path) = cond

Matches(doc, filter) ==
    \A path \in DOMAIN filter : Satisfies(doc, path, filter[path])

RunStage(stage, items, docs) ==
    CASE stage.stage = "$vectorSearch" -> NearestNeighbours(docs, stage.arg)
      [] stage.stage = "$addFields" ->
            [k \in 1..Len(items) |->
                [items[k] EXCEPT !.doc = (stage.arg :> items[k].score) @@ @]]
      [] stage.stage = "$match" ->
            SelectSeq(items, LAMBDA it : Matches(it.doc, stage.arg))
      [] stage.stage = "$project" ->
            [k \in 1..Len(items) |->
                [items[k] EXCEPT !.doc =
                    [f \in (DOMAIN @) \cap stage.arg |-> @[f]]]]

RECURSIVE RunStages(_, _, _)
RunStages(pipeline, items, docs) ==
    IF pipeline = <<>> THEN items
    ELSE RunStages(Tail(pipeline), RunStage(Head(pipeline), items, docs), docs)

\* list(collection.aggregate(pipeline))
Aggregate(docs, pipeline) ==
    LET out == RunStages(pipeline, <<>>, docs)
    IN  [k \in 1..Len(out) |-> out[k].doc]

AggregateOutcomes(queryVector) ==
    IF queryVector = NoVector THEN {"error"} ELSE {"ok", "error"}

\* what vector_search returns: the results, or [] on a PyMongoError
VectorSearch(docs, pipeline, outcome) ==
    IF outcome = "ok" THEN Aggregate(docs, pipeline) ELSE <<>>

-----------------------------------------------------------------------------
(* The search tools: search_documents of main.py ("main"), search_documents *)
(* of tools/vector_search.py ("tool"), and query_contract                   *)

MinLimit == 1
MaxSearchLimit == 50
MaxContractLimit == 10
MinThreshold == 0
MaxThreshold == 10
DefaultThreshold == 7

Queries == {BlankText, TextA, TextB}

SearchLimits ==
    {MinLimit - 1, MinLimit, MinLimit + 1, MaxSearchLimit, MaxSearchLimit + 1}

ContractLimits ==
    {MinLimit - 1, MinLimit, MaxContractLimit, MaxContractLimit + 1}

Thresholds ==
    {MinThreshold - 1, MinThreshold, DefaultThreshold, MaxThreshold,
     MaxThreshold + 1}

\* metadata_filter: none (None and {} behave alike), a key of the stored
\* metadata, the same key as a path into the metadata field
FilterInputs ==
    {NoMeta,
     <<"user_id">> :> S("u1"),
     <<"metadata", "user_id">> :> S("u1")}

SearchImpls == {"main", "tool"}

\* The arguments of search calls: every query, limit and threshold for the
\* default collection without a filter, and every collection and filter for
\* the in-range limits and the thresholds 0.0 and 0.7
SearchRequests ==
    {r \in [impl : SearchImpls,
            query : Queries,
            collection_name : Collections,
            limit : SearchLimits,
            similarity_threshold : Thresholds,
            metadata_filter : FilterInputs] :
        \/ r.collection_name = "documents" /\ r.metadata_filter = NoMeta
        \/ /\ r.limit \in {MinLimit, MinLimit + 1}
           /\ r.similarity_threshold \in {MinThreshold, DefaultThreshold}
           /\ r.query = TextA}

ContractRequests ==
    {r \in [question : Queries,
            collection_name : Collections,
            limit : ContractLimits,
            similarity_threshold : Thresholds] :
        \/ r.collection_name = "contract_analysis"
        \/ r.limit = MinLimit /\ r.similarity_threshold = DefaultThreshold}

\* the limit check of main.py
LimitRejected_Main(limit) == limit < MinLimit \/ limit > MaxSearchLimit

\* the limit check of tools/vector_search.py
LimitRejected_Tool(limit) == limit <= 0

ThresholdRejected(threshold) ==
    threshold < MinThreshold \/ threshold > MaxThreshold

\* the input validation of a search_documents implementation
SearchRejected(r) ==
    \/ ~Truthy(Strip(r.query))
    \/ IF r.impl = "main" THEN LimitRejected_Main(r.limit)
       ELSE LimitRejected_Tool(r.limit)
    \/ ThresholdRejected(r.similarity_threshold)

\* the input validation of query_contract
ContractRejected(r) ==
    \/ ~Truthy(Strip(r.question))
    \/ r.limit < MinLimit \/ r.limit > MaxContractLimit
    \/ ThresholdRejected(r.similarity_threshold)

\* (mutant) the failure passed on to the caller as an exception
ToolError_Raised(e) == [kind |-> "raised", error |-> e]

\* the error report a tool returns from its except clause
ToolError(e) == [kind |-> "error", error |-> e]

\* embeddings[0] if embeddings else []
FirstOrEmpty(embeddings) ==
    IF embeddings # <<>> THEN embeddings[1] ELSE NoVector

\* begin generate_single_embedding(text)
StartSingleEmbedding(text) ==
    /\ pc' = "embed_loop"
    /\ ret' = NoRet
    /\ embTexts' = <<text>>
    /\ embBatchSize' = DefaultBatchSize
    /\ embI' = 0
    /\ embAll' = <<>>

\* an invocation that ends before any embedding is asked for
FinishEarly(result) ==
    /\ pc' = "done"
    /\ ret' = result
    /\ embTexts' = <<>>
    /\ embBatchSize' = DefaultBatchSize
    /\ embI' = 0
    /\ embAll' = <<>>

\* search_documents up to the call of generate_single_embedding.  main.py
\* constructs its store (connect, server_info) first and validates then; the
\* tool object of tools/vector_search.py holds a store made at import
SearchCall ==
    /\ pc = "idle"
    /\ \E r \in SearchRequests :
       \E conn \in (IF r.impl = "main" THEN ConnectOutcomes ELSE {"ok"}) :
         /\ op' = "search"
         /\ req' = r
         /\ dbPre' = db
         /\ log' = IF r.impl = "main"
                   THEN <<[kind |-> "connect", outcome |-> conn]>>
                   ELSE <<>>
         /\ IF conn = "error" THEN FinishEarly(ToolError("connect"))
            ELSE IF SearchRejected(r) THEN FinishEarly(ToolError("validation"))
            ELSE StartSingleEmbedding(IF r.impl = "main" THEN r.query
                                      ELSE Strip(r.query))
    /\ UNCHANGED <<db, chunks, writes, searchResults, tmp, attempts, elements, chunking, processor, calls, scratch, settings>>

\* the call of vector_search and its request to the database
RunVectorSearch(queryVector, filter) ==
    \E outcome \in AggregateOutcomes(queryVector) :
       LET pipeline == BuildPipeline(queryVector, req.limit,
                                     req.similarity_threshold, filter)
       IN  /\ log' = Append(log, [kind |-> "aggregate",
                                  collection |-> req.collection_name,
                                  pipeline |-> pipeline,
                                  outcome |-> outcome])
           /\ searchResults' = VectorSearch(db[req.collection_name],
                                            pipeline, outcome)

\* search_documents after generate_single_embedding: the search and the report
SearchQuery ==
    /\ op = "search"
    /\ pc \in {"embed_returned", "embed_raised"}
    /\ pc' = "done"
    /\ LET queryVector == FirstOrEmpty(embAll)
       IN  IF pc = "embed_raised"
           THEN /\ ret' = ToolError("provider")
                /\ UNCHANGED <<log, searchResults>>
           ELSE IF req.impl = "tool" /\ queryVector = NoVector
           THEN /\ ret' = ToolError("no_embedding")
                /\ UNCHANGED <<log, searchResults>>
           ELSE /\ RunVectorSearch(queryVector, req.metadata_filter)
                /\ ret' = IF searchResults' = <<>>
                          THEN [kind |-> "no_results"]
                          ELSE [kind |-> "results", results |-> searchResults']
    /\ UNCHANGED <<db, dbPre, op, req, chunks, embVars, writes, tmp, attempts, elements, chunking, processor, calls, scratch, settings>>

\* query_contract up to the call of generate_single_embedding
QueryCall ==
    /\ pc = "idle"
    /\ \E r \in ContractRequests, conn \in ConnectOutcomes :
         /\ op' = "query"
         /\ req' = r
         /\ dbPre' = db
         /\ log' = <<[kind |-> "connect", outcome |-> conn]>>
         /\ IF conn = "error" THEN FinishEarly(ToolError("connect"))
            ELSE IF ContractRejected(r)
            THEN FinishEarly(ToolError("validation"))
            ELSE StartSingleEmbedding(r.question)
    /\ UNCHANGED <<db, chunks, writes, searchResults, tmp, attempts, elements, chunking, processor, calls, scratch, settings>>

\* (mutant) the check for an empty result left out
NoResults_Never(results) == FALSE

\* not search_results
NoResults(results) == results = <<>>

\* query_contract after generate_single_embedding: the search, and the fixed
\* response when nothing was found
QuerySearch ==
    /\ op = "query"
    /\ pc \in {"embed_returned", "embed_raised"}
    /\ IF pc = "embed_raised"
       THEN /\ pc' = "done"
            /\ ret' = ToolError("provider")
            /\ UNCHANGED <<log, searchResults>>
       ELSE /\ RunVectorSearch(FirstOrEmpty(embAll), NoMeta)
            /\ IF NoResults(searchResults')
               THEN /\ pc' = "done"
                    /\ ret' = [kind |-> "no_context"]
               ELSE /\ pc' = "chat"
                    /\ ret' = NoRet
    /\ UNCHANGED <<db, dbPre, op, req, chunks, embVars, writes, tmp, attempts, elements, chunking, processor, calls, scratch, settings>>

ChatModel == "gpt-4o-mini"

ChatOutcomes == {"ok", "error"}

\* query_contract with search results: the context is built from them and the
\* generative model is asked for the answer
QueryChat ==
    /\ op = "query"
    /\ pc = "chat"
    /\ pc' = "done"
    /\ \E outcome \in ChatOutcomes :
         /\ log' = Append(log, [kind |-> "chat.completions.create",
                                model |-> ChatModel,
                                excerpts |-> Len(searchResults),
                                outcome |-> outcome])
         /\ ret' = IF outcome = "ok"
                   THEN [kind |-> "answer", sources |-> Len(searchResults)]
                   ELSE ToolError("provider")
    /\ UNCHANGED <<db, dbPre, op, req, chunks, embVars, writes, searchResults, tmp, attempts, elements, chunking, processor, calls, scratch, settings>>

\* the documents a successful ingest call r stores for a document whose
\* partition yields raw
Ingested(r, raw) ==
    LET ref == r.document_url
        cs == ProcessDocument(raw, r.chunking_strategy, ref,
                 IF IsUrl(ref) THEN UrlMetadata(ref, r.metadata_fields)
                 ELSE r.metadata_fields)
        contents == [k \in 1..Len(cs) |-> cs[k].content]
    IN  StoreDocuments(ZipChunks(cs, ProviderData(CleanBatch(contents), "ok")),
                       r.collection_name, SourceMetadata(r, Len(cs)))

TaggedRequest ==
    [SeedRequest EXCEPT
        !.document_url = CHOOSE ref \in DocRefs : ref.kind = "url",
        !.metadata_fields = "user_id" :> S("u1")]

ContractRequest == [SeedRequest EXCEPT !.collection_name = "contract_analysis"]

\* The searched database: empty, or filled by earlier ingest calls
SearchDbs ==
    { [c \in Collections |-> <<>>],
      [c \in Collections |->
          IF c = SeedRequest.collection_name
          THEN SeedDocuments \o Ingested(TaggedRequest, <<TextA, TextB>>)
          ELSE Ingested(ContractRequest, <<TextA>>)] }

SearchInit ==
    /\ db \in SearchDbs
    /\ dbPre = db
    /\ op = "none"
    /\ req = NoReq
    /\ pc = "idle"
    /\ chunks = <<>>
    /\ embTexts = <<>>
    /\ embBatchSize = DefaultBatchSize
    /\ embI = 0
    /\ embAll = <<>>
    /\ log = <<>>
    /\ ret = NoRet
    /\ writes = 0
    /\ searchResults = <<>>
    /\ tmp = {}
    /\ attempts = <<>>
    /\ elements = NoElements
    /\ chunking = NoChunking
    /\ processor = DefaultProcessor
    /\ calls = NoCalls
    /\ scratch = NoFiles
    /\ settings = NoSettingsYet

\* The search tools
SearchNext ==
    \/ SearchCall
    \/ QueryCall
    \/ EmbedBatch
    \/ EmbedReturn
    \/ SearchQuery
    \/ QuerySearch
    \/ QueryChat
    \/ Reset

SearchSpec == SearchInit /\ [][SearchNext]_vars

-----------------------------------------------------------------------------
(* MongoDBVectorStore.list_collections and get_collection_stats, and the   *)
(* list_collections tool.  A collection exists in the database once it     *)
(* holds a document.                                                       *)

CollectionOrder == <<"documents", "contract_analysis">>

\* database.list_collection_names()
ListCollectionNames(d) == SelectSeq(CollectionOrder, LAMBDA c : d[c] # <<>>)

BackendOutcomes == {"ok", "error"}

\* what list_collections returns: the names, or [] on a PyMongoError
ListCollections(d, outcome) ==
    IF outcome = "ok" THEN ListCollectionNames(d) ELSE <<>>

\* (mutant) a failure of collStats answered with an empty statistic
GetCollectionStats_NoError(d, coll, outcome) ==
    [collection_name |-> coll,
     document_count |-> IF outcome = "ok" THEN Len(d[coll]) ELSE 0]

\* what get_collection_stats returns: the statistic (of which the document
\* count is kept here), or the error payload on a PyMongoError
GetCollectionStats(d, coll, outcome) ==
    IF outcome = "ok"
    THEN [collection_name |-> coll, document_count |-> Len(d[coll])]
    ELSE [collection_name |-> coll, error |-> "backend"]

ListRequests == [include_stats : BOOLEAN]

\* the list_collections tool: the store is constructed, the names are listed
\* and, with include_stats, the statistic of each listed collection is asked
ListCall ==
    /\ pc = "idle"
    /\ \E r \in ListRequests, conn \in ConnectOutcomes :
       \E listed \in (IF conn = "ok" THEN BackendOutcomes ELSE {"ok"}) :
       \E stats \in (IF conn = "ok" /\ r.include_stats
                        /\ ListCollections(db, listed) # <<>>
                     THEN [Collections -> BackendOutcomes]
                     ELSE {[c \in Collections |-> "ok"]}) :
         LET connect == [kind |-> "connect", outcome |-> conn]
             names == ListCollections(db, listed)
             asked == IF r.include_stats THEN names ELSE <<>>
         IN  /\ op' = "list"
             /\ req' = r
             /\ dbPre' = db
             /\ pc' = "done"
             /\ IF conn = "error"
                THEN /\ log' = <<connect>>
                     /\ ret' = ToolError("connect")
                ELSE /\ log' = <<connect,
                                 [kind |-> "list_collection_names",
                                  outcome |-> listed]>>
                              \o [k \in 1..Len(asked) |->
                                     [kind |-> "collStats",
                                      collection |-> asked[k],
                                      outcome |-> stats[asked[k]]]]
                     /\ ret' = IF names = <<>>
                               THEN [kind |-> "no_collections"]
                               ELSE [kind |-> "collections",
                                     names |-> names,
                                     stats |-> [k \in 1..Len(asked) |->
                                        GetCollectionStats(db, asked[k],
                                                           stats[asked[k]])]]
    /\ UNCHANGED <<db, chunks, embVars, writes, searchResults, tmp, attempts, elements, chunking, processor, calls, scratch, settings>>

\* The four tools of the server.  The database starts empty or filled by
\* earlier ingest calls, and each tool is followed on the database as it
\* started
ToolsInit ==
    /\ db \in InitialDbs \cup SearchDbs
    /\ dbPre = db
    /\ op = "none"
    /\ req = NoReq
    /\ pc = "idle"
    /\ chunks = <<>>
    /\ embTexts = <<>>
    /\ embBatchSize = DefaultBatchSize
    /\ embI = 0
    /\ embAll = <<>>
    /\ log = <<>>
    /\ ret = NoRet
    /\ writes = 0
    /\ searchResults = <<>>
    /\ tmp = {}
    /\ attempts = <<>>
    /\ elements = NoElements
    /\ chunking = NoChunking
    /\ processor = DefaultProcessor
    /\ calls = NoCalls
    /\ scratch = NoFiles
    /\ settings = NoSettingsYet

ToolsNext ==
    \/ writes = 0 /\ IngestCall
    \/ IngestEmbed
    \/ IngestStore
    \/ writes = 0 /\ SearchCall
    \/ SearchQuery
    \/ writes = 0 /\ QueryCall
    \/ QuerySearch
    \/ QueryChat
    \/ writes = 0 /\ ListCall
    \/ EmbedBatch
    \/ EmbedReturn
    \/ Reset

ToolsSpec == ToolsInit /\ [][ToolsNext]_vars

-----------------------------------------------------------------------------
(* Two ingest calls of main.py at the same time, on different documents.    *)
(* Both calls run in one server process, on its event loop, or in two       *)
(* server processes on one machine (each client session starts its own      *)
(* server).  The calls of one process give way to each other only where a   *)
(* coroutine really waits, which in ingest_document is the request to the   *)
(* embedding provider: download_document, process_document and the finally  *)
(* block of process_document_from_url use blocking calls and run without    *)
(* interruption.  The steps of two processes interleave freely; the         *)
(* processes share the scratch directory, tempfile.gettempdir().  No        *)
(* outside service fails here, so that a failure can only come from the     *)
(* other call.                                                              *)

CallIds == {1, 2}

\* the documents: two URLs with the same last path component, one with
\* another, and a local file
ConcurrentRefs ==
    { [name |-> "https://host/contract.pdf",   kind |-> "url",
       file |-> "contract.pdf", local |-> "/tmp/contract.pdf"],
      [name |-> "https://mirror/contract.pdf", kind |-> "url",
       file |-> "contract.pdf", local |-> "/tmp/contract.pdf"],
      [name |-> "https://host/terms.pdf",      kind |-> "url",
       file |-> "terms.pdf",    local |-> "/tmp/terms.pdf"],
      [name |-> "/data/report.txt",            kind |-> "path",
       file |-> "report.txt",   local |-> "/data/report.txt"] }

\* the bytes of a document, given by the chunks the library makes of them
Body(ref) ==
    CASE ref.name = "https://host/contract.pdf"   -> <<TextA>>
      [] ref.name = "https://mirror/contract.pdf" -> <<TextB>>
      [] ref.name = "https://host/terms.pdf"      -> <<TextA, TextB>>
      [] OTHER                                    -> <<TextB, TextA>>

\* the arguments of a concurrent call
ConcurrentRequest(ref, coll) ==
    [SeedRequest EXCEPT !.document_url = ref, !.collection_name = coll]

\* open(temp_file, "wb") and f.write(response.content)
WriteScratch(files, ref) == (ref.local :> Body(ref)) @@ files

\* temp_file.unlink()
RemoveScratch(files, path) == [p \in DOMAIN files \ {path} |-> files[p]]

\* process_document: the chunks made of the bytes read
ChunksOf(bytes, r) ==
    ProcessDocument(bytes, r.chunking_strategy, r.document_url,
                    IF IsUrl(r.document_url)
                    THEN UrlMetadata(r.document_url, r.metadata_fields)
                    ELSE r.metadata_fields)

\* the documents store_embeddings prepares for a call's chunks and vectors
DocumentsOf(cs, vectors, r) ==
    LET dchunks == ZipChunks(cs, vectors)
    IN  StoreDocuments(dchunks, r.collection_name,
                       SourceMetadata(r, Len(dchunks)))

\* both calls run on the event loop of one process
SameProcess == calls[1].process = calls[2].process

NewCall(ref, coll, process) ==
    [req |-> ConcurrentRequest(ref, coll), process |-> process, pc |-> "start",
     chunks |-> <<>>, embeddings |-> <<>>, stored |-> <<>>, ret |-> NoRet]

\* download_document of a call in a process of its own
ConcDownload ==
    \E c \in CallIds :
        /\ ~SameProcess
        /\ calls[c].pc = "start"
        /\ IsUrl(calls[c].req.document_url)
        /\ scratch' = WriteScratch(scratch, calls[c].req.document_url)
        /\ calls' = [calls EXCEPT ![c].pc = "downloaded"]
        /\ UNCHANGED db

\* process_document of a call in a process of its own: the file is looked
\* for, partitioned and chunked.  A missing file raises FileNotFoundError,
\* the finally block finds nothing to remove and the tool returns the error
ConcProcess ==
    \E c \in CallIds :
        LET r == calls[c].req
            path == r.document_url.local
        IN  /\ ~SameProcess
            /\ \/ calls[c].pc = "downloaded"
               \/ calls[c].pc = "start" /\ ~IsUrl(r.document_url)
            /\ calls' =
                 IF ~IsUrl(r.document_url)
                 THEN [calls EXCEPT ![c].pc = "processed",
                                    ![c].chunks = ChunksOf(Body(r.document_url), r)]
                 ELSE IF path \in DOMAIN scratch
                 THEN [calls EXCEPT ![c].pc = "read",
                                    ![c].chunks = ChunksOf(scratch[path], r)]
                 ELSE [calls EXCEPT ![c].pc = "done",
                                    ![c].ret = IngestError("not_found")]
            /\ UNCHANGED <<db, scratch>>

\* the finally block of process_document_from_url of a call in a process of
\* its own
ConcCleanup ==
    \E c \in CallIds :
        /\ ~SameProcess
        /\ calls[c].pc = "read"
        /\ scratch' = RemoveScratch(scratch, calls[c].req.document_url.local)
        /\ calls' = [calls EXCEPT ![c].pc = "processed"]
        /\ UNCHANGED db

\* a call on the shared event loop up to its request to the provider:
\* download, processing and cleanup are not interrupted
ConcProcessAtOnce ==
    \E c \in CallIds :
        LET r == calls[c].req
            ref == r.document_url
            written == IF IsUrl(ref) THEN WriteScratch(scratch, ref) ELSE scratch
        IN  /\ SameProcess
            /\ calls[c].pc = "start"
            /\ calls' = [calls EXCEPT
                            ![c].pc = "processed",
                            ![c].chunks = ChunksOf(IF IsUrl(ref) THEN written[ref.local]
                                                   ELSE Body(ref), r)]
            /\ scratch' = IF IsUrl(ref) THEN RemoveScratch(written, ref.local)
                          ELSE scratch
            /\ UNCHANGED db

\* generate_embeddings of a call: the provider answers with one vector per
\* text
ConcEmbed ==
    \E c \in CallIds :
        /\ calls[c].pc = "processed"
        /\ calls' = [calls EXCEPT
                        ![c].pc = "embedded",
                        ![c].embeddings =
                            [k \in 1..Len(calls[c].chunks) |->
                                Vec(CleanText(calls[c].chunks[k].content))]]
        /\ UNCHANGED <<db, scratch>>

\* store_embeddings of a call and the report
ConcStore ==
    \E c \in CallIds :
        LET r == calls[c].req
            docs == DocumentsOf(calls[c].chunks, calls[c].embeddings, r)
        IN  /\ calls[c].pc = "embedded"
            /\ db' = [db EXCEPT ![r.collection_name] = InsertMany(@, docs)]
            /\ calls' = [calls EXCEPT
                            ![c].pc = "done",
                            ![c].stored = docs,
                            ![c].ret = [kind |-> "success",
                                        storage |-> StoreSuccess(r.collection_name,
                                                                 Len(docs)),
                                        chunks |-> Len(calls[c].chunks),
                                        embeddings |-> Len(calls[c].embeddings)]]
            /\ UNCHANGED scratch

\* everything the concurrent calls leave alone
sequentialVars ==
    <<dbPre, op, req, pc, chunks, embTexts, embBatchSize, embI, embAll, log,
      ret, writes, searchResults, tmp, attempts, elements, chunking, processor,
      settings>>

ConcurrentInit ==
    /\ db = [c \in Collections |-> <<>>]
    /\ dbPre = db
    /\ op = "none"
    /\ req = NoReq
    /\ pc = "idle"
    /\ chunks = <<>>
    /\ embTexts = <<>>
    /\ embBatchSize = DefaultBatchSize
    /\ embI = 0
    /\ embAll = <<>>
    /\ log = <<>>
    /\ ret = NoRet
    /\ writes = 0
    /\ searchResults = <<>>
    /\ tmp = {}
    /\ attempts = <<>>
    /\ elements = NoElements
    /\ chunking = NoChunking
    /\ processor = DefaultProcessor
    /\ scratch = NoFiles
    /\ settings = NoSettingsYet
    /\ \E ref1 \in ConcurrentRefs, ref2 \in ConcurrentRefs,
          coll1 \in Collections, coll2 \in Collections, process2 \in CallIds :
          /\ ref1 # ref2
          /\ calls = <<NewCall(ref1, coll1, 1), NewCall(ref2, coll2, process2)>>

ConcurrentNext ==
    \/ ConcDownload /\ UNCHANGED sequentialVars
    \/ ConcProcess /\ UNCHANGED sequentialVars
    \/ ConcCleanup /\ UNCHANGED sequentialVars
    \/ ConcProcessAtOnce /\ UNCHANGED sequentialVars
    \/ ConcEmbed /\ UNCHANGED sequentialVars
    \/ ConcStore /\ UNCHANGED sequentialVars

ConcurrentSpec == ConcurrentInit /\ [][ConcurrentNext]_vars

-----------------------------------------------------------------------------
(* config.get_settings.  A Settings object is known by the number it was    *)
(* given when it was constructed; Settings() raises when a required         *)
(* variable is missing from the environment.                                *)

SettingsOutcomes == {"ok", "error"}

\* get_settings raised: the entry of returned for a call without a result
Raised == -1

\* (mutant) a Settings object is constructed at every call
AfterGetSettings_NoCache(s, outcome) ==
    IF outcome = "error"
    THEN [s EXCEPT !.returned = Append(@, Raised)]
    ELSE [cached |-> s.built + 1, built |-> s.built + 1,
          builtSinceReset |-> s.builtSinceReset + 1,
          returned |-> Append(s.returned, s.built + 1)]

\* get_settings: the module state after the call, its result appended to
\* returned
AfterGetSettings(s, outcome) ==
    IF s.cached # NoSettings
    THEN [s EXCEPT !.returned = Append(@, s.cached)]
    ELSE IF outcome = "error"
    THEN [s EXCEPT !.returned = Append(@, Raised)]
    ELSE [cached |-> s.built + 1, built |-> s.built + 1,
          builtSinceReset |-> s.builtSinceReset + 1,
          returned |-> Append(s.returned, s.built + 1)]

GetSettings ==
    /\ Len(settings.returned) < MaxSettingsCalls
    /\ \E outcome \in SettingsOutcomes :
          /\ outcome = "ok" => settings.built < MaxSettingsBuilt
          /\ settings' = AfterGetSettings(settings, outcome)
    /\ UNCHANGED <<db, dbPre, op, req, pc, chunks, embVars, log, ret, writes,
                   searchResults, tmp, attempts, elements, chunking, processor,
                   calls, scratch>>

\* the cached instance is reset explicitly: config._settings = None
ResetSettings ==
    /\ settings.returned # <<>>
    /\ settings' = [settings EXCEPT !.cached = NoSettings,
                                    !.builtSinceReset = 0,
                                    !.returned = <<>>]
    /\ UNCHANGED <<db, dbPre, op, req, pc, chunks, embVars, log, ret, writes,
                   searchResults, tmp, attempts, elements, chunking, processor,
                   calls, scratch>>

SettingsInit ==
    /\ db = [c \in Collections |-> <<>>]
    /\ dbPre = db
    /\ op = "none"
    /\ req = NoReq
    /\ pc = "idle"
    /\ chunks = <<>>
    /\ embTexts = <<>>
    /\ embBatchSize = DefaultBatchSize
    /\ embI = 0
    /\ embAll = <<>>
    /\ log = <<>>
    /\ ret = NoRet
    /\ writes = 0
    /\ searchResults = <<>>
    /\ tmp = {}
    /\ attempts = <<>>
    /\ elements = NoElements
    /\ chunking = NoChunking
    /\ processor = DefaultProcessor
    /\ calls = NoCalls
    /\ scratch = NoFiles
    /\ settings = NoSettingsYet

SettingsNext ==
    \/ GetSettings
    \/ ResetSettings

SettingsSpec == SettingsInit /\ [][SettingsNext]_vars

-----------------------------------------------------------------------------
(* Properties of generate_embeddings, stated on a finished direct call *)

\* a text that is non-empty after trimming
NonBlank(t) == t.core > 0

\* what the contract says is submitted for a text: trimmed, first 8000 chars
Submitted(t) == Text(t.tag, 0, Min(t.core, MaxEmbedChars), 0)

Ceil(n, d) == (n + d - 1) \div d

\* the consecutive batches of the input, each of at most bs texts
InputBatches(texts, bs) ==
    [j \in 1..Ceil(Len(texts), bs) |->
        [k \in 1..(Min(j * bs, Len(texts)) - (j - 1) * bs) |->
            texts[(j - 1) * bs + k]]]

HasNonBlank(batch) == \E k \in 1..Len(batch) : NonBlank(batch[k])

\* the requests the contract asks for: one per batch holding a non-blank text
ExpectedRequests(texts, bs) ==
    LET kept == SelectSeq(InputBatches(texts, bs), HasNonBlank)
    IN  [j \in 1..Len(kept) |->
            LET nb == SelectSeq(kept[j], NonBlank)
            IN  [k \in 1..Len(nb) |-> Submitted(nb[k])]]

EmbedRequests == SelectSeq(log, LAMBDA e : e.kind = "embeddings.create")

AllResponsesComplete ==
    \A i \in 1..Len(EmbedRequests) : EmbedRequests[i].outcome = "ok"

EmbedDone == op = "embed" /\ pc = "done"

EmbedReturned == EmbedDone /\ ret.kind = "value"

\* C8: a direct call that returns, every provider response being one vector
\* per submitted text, returns exactly the vectors of the non-discarded texts
\* (those non-empty after trimming), in input order
C8_OrderPreserved ==
    (EmbedReturned /\ AllResponsesComplete) =>
        LET kept == SelectSeq(AsList(req.texts), NonBlank)
        IN  /\ Len(ret.value) = Len(kept)
            /\ \A k \in 1..Len(kept) : ret.value[k] = Vec(Submitted(kept[k]))

\* a returned call that dropped a text and spanned at least two requests
C8_Witness ==
    /\ EmbedReturned
    /\ AllResponsesComplete
    /\ Len(EmbedRequests) >= 2
    /\ Len(ret.value) >= 2
    /\ Len(ret.value) < Len(embTexts)
    /\ ret.value[1] # ret.value[2]

\* C9: no request to the provider carries an empty or whitespace-only text
\* or an empty input list; a batch without a non-blank text causes no request,
\* and an input without any non-blank text causes none and yields no vector
C9_NoBlankSubmitted ==
    /\ \A i \in 1..Len(EmbedRequests) :
         /\ Len(EmbedRequests[i].input) > 0
         /\ \A k \in 1..Len(EmbedRequests[i].input) :
              TextLen(EmbedRequests[i].input[k]) > 0
              /\ EmbedRequests[i].input[k].pre = 0
    /\ op = "embed" =>
         Len(EmbedRequests)
            <= Len(SelectSeq(InputBatches(AsList(req.texts), req.batch_size),
                             HasNonBlank))
    /\ (EmbedDone /\ ~HasNonBlank(AsList(req.texts))) =>
         /\ EmbedRequests = <<>>
         /\ ret = [kind |-> "value", value |-> <<>>]

\* a finished call whose first batch was all blank and whose later batch was
\* submitted without its blank text
C9_Witness ==
    /\ EmbedReturned
    /\ req.batch_size = 2
    /\ Len(embTexts) = 3
    /\ ~HasNonBlank(SubSeq(embTexts, 1, 2))
    /\ Len(EmbedRequests) = 1
    /\ Len(ret.value) = 1

\* C10 as stated: n non-empty texts cause ceil(n / batch_size) requests
C10_RequestCountByNonEmpty ==
    (EmbedReturned /\ AllResponsesComplete) =>
        Len(EmbedRequests)
            = Ceil(Len(SelectSeq(AsList(req.texts), NonBlank)), req.batch_size)

\* C10 amended: the batches are consecutive slices of the input as given,
\* blank texts included; no request carries more than batch_size texts; a call
\* that returns has made exactly one request per batch holding a non-blank
\* text, in order, which is ceil(n / batch_size) requests when no text is blank
C10_OneRequestPerBatch ==
    /\ op = "embed" =>
         \A i \in 1..Len(EmbedRequests) :
             Len(EmbedRequests[i].input) <= req.batch_size
    /\ EmbedReturned =>
         /\ [i \in 1..Len(EmbedRequests) |-> EmbedRequests[i].input]
              = ExpectedRequests(AsList(req.texts), req.batch_size)
         /\ (\A k \in 1..Len(embTexts) : NonBlank(embTexts[k])) =>
              Len(EmbedRequests) = Ceil(Len(embTexts), req.batch_size)

\* three non-blank texts with batch_size 2: two requests, of 2 and 1 texts
C10_Witness ==
    /\ EmbedReturned
    /\ req.batch_size = 2
    /\ Len(embTexts) = 3
    /\ \A k \in 1..3 : NonBlank(embTexts[k])
    /\ Len(EmbedRequests) = 2
    /\ Len(EmbedRequests[1].input) = 2
    /\ Len(EmbedRequests[2].input) = 1

-----------------------------------------------------------------------------
(* Properties of ingest_document *)

InsertRequests == SelectSeq(log, LAMBDA e : e.kind = "insert_many")

IngestDone == op = "ingest" /\ pc = "done"

IngestSucceeded == IngestDone /\ ret.kind = "success"

\* the documents the current call has added to its collection
StoredByCall ==
    SubSeq(db[req.collection_name],
           Len(dbPre[req.collection_name]) + 1,
           Len(db[req.collection_name]))

\* generate_embeddings has returned to ingest_document a list whose length
\* is not the number of chunks
IngestMismatch ==
    /\ op = "ingest"
    /\ pc \in {"embed_returned", "done"}
    /\ chunks # <<>>
    /\ \A i \in 1..Len(EmbedRequests) : EmbedRequests[i].outcome # "error"
    /\ Len(embAll) # Len(chunks)

\* C1: when the embedding step returns a number of vectors that differs from
\* the number of chunks, the call makes no insert_many request, leaves the
\* database as it was and returns a failure report
C1_MismatchAborts ==
    IngestMismatch =>
        /\ InsertRequests = <<>>
        /\ db = dbPre
        /\ pc = "done" => ret.kind = "error"

\* a finished call of several chunks whose provider response lacked a vector
C1_Witness ==
    /\ IngestMismatch
    /\ pc = "done"
    /\ Len(chunks) >= 2
    /\ Len(embAll) = Len(chunks) - 1

\* C2: a finished ingest call has stored all its chunks and reports success
\* with that count, or reports a failure and has stored none of them
C2_AllOrNothing ==
    IngestDone =>
        \/ /\ ret.kind = "success"
           /\ ret.storage.chunks_stored = Len(chunks)
           /\ Len(StoredByCall) = Len(chunks)
        \/ /\ ret.kind # "success"
           /\ ret.kind = "failed" => ret.storage.chunks_stored = 0
           /\ db = dbPre

\* C3: after a successful ingest call the i-th document it stored holds the
\* content of the i-th chunk of the processor and the vector of that chunk's
\* text (trimmed and cut to the character limit), for every i
C3_ChunkOrderPreserved ==
    IngestSucceeded =>
        /\ Len(StoredByCall) = Len(chunks)
        /\ \A i \in 1..Len(chunks) :
             /\ StoredByCall[i].content = chunks[i].content
             /\ StoredByCall[i].embedding = Vec(Submitted(chunks[i].content))

\* a successful call whose chunks needed two embedding requests
C3_Witness ==
    /\ IngestSucceeded
    /\ Len(chunks) > DefaultBatchSize
    /\ Len(EmbedRequests) = 2
    /\ chunks[1].content # chunks[2].content
    /\ Len(dbPre[req.collection_name]) > 0

\* C4 as stated: the i-th stored document has chunk_index i, whatever the
\* caller's extra metadata
C4_ChunkIndexIsPosition ==
    IngestSucceeded =>
        \A i \in 1..Len(StoredByCall) :
            StoredByCall[i].metadata["chunk_index"] = I(i - 1)

\* C4 amended: the i-th stored document has chunk_index i unless the caller's
\* extra metadata has a chunk_index key, whose value then replaces it
C4_ChunkIndexUnlessOverridden ==
    IngestSucceeded =>
        /\ Len(StoredByCall) = Len(chunks)
        /\ \A i \in 1..Len(StoredByCall) :
             StoredByCall[i].metadata["chunk_index"]
               = IF "chunk_index" \in DOMAIN req.metadata_fields
                 THEN req.metadata_fields["chunk_index"]
                 ELSE I(i - 1)

\* a successful call, without a caller chunk_index, of a document whose
\* first library chunk was blank: the processor numbered the chunk 1, the
\* store 0
C4_Witness ==
    /\ IngestSucceeded
    /\ "chunk_index" \notin DOMAIN req.metadata_fields
    /\ Len(chunks) >= 1
    /\ chunks[1].metadata["chunk_index"] = I(1)
    /\ StoredByCall[1].metadata["chunk_index"] = I(0)

-----------------------------------------------------------------------------
(* Properties of the search tools, stated on the invocation in progress *)

AggregateRequests == SelectSeq(log, LAMBDA e : e.kind = "aggregate")

ChatRequests == SelectSeq(log, LAMBDA e : e.kind = "chat.completions.create")

ConnectFailed ==
    \E k \in 1..Len(log) : log[k].kind = "connect" /\ log[k].outcome = "error"

SearchDone == op = "search" /\ pc = "done"

QueryDone == op = "query" /\ pc = "done"

OutOfRange(r) ==
    \/ r.limit \notin MinLimit..MaxSearchLimit
    \/ r.similarity_threshold \notin MinThreshold..MaxThreshold

\* C5: search_documents (main.py) rejects an out-of-range limit or minScore
\* before any network call: when such a call has returned, its result is the
\* validation failure and it has made no request at all, neither the backend
\* connection and health check, nor an embedding request, nor a vector query.
C5_RejectsBeforeNetwork ==
    (SearchDone /\ req.impl = "main" /\ OutOfRange(req))
        => (ret = ToolError("validation") /\ log = <<>>)

\* C6: in every implementation of search_documents, a call whose limit is
\* outside [1, 50], whose minScore is outside [0, 1] or whose query is empty
\* or whitespace-only fails with a validation error, and makes neither an
\* embedding request nor a vector query (stated for the calls whose backend
\* connection did not fail).
C6_InvalidSearchFails ==
    (SearchDone /\ ~ConnectFailed /\ (OutOfRange(req) \/ ~NonBlank(req.query)))
        => /\ ret = ToolError("validation")
           /\ EmbedRequests = <<>>
           /\ AggregateRequests = <<>>

\* C7: in query_contract the generative model is called at most once, and
\* only after a vector search that returned at least one hit; when the search
\* returned no hits the call ends with the fixed insufficient-context response
\* and without a request to the generative model.
C7_ChatOnlyAfterHits ==
    op = "query" =>
        /\ Len(ChatRequests) <= 1
        /\ ChatRequests # <<>> =>
              /\ searchResults # <<>>
              /\ \E i, j \in 1..Len(log) :
                    /\ i < j
                    /\ log[i].kind = "aggregate"
                    /\ log[j].kind = "chat.completions.create"
        /\ (QueryDone /\ AggregateRequests # <<>> /\ searchResults = <<>>) =>
              /\ ret = [kind |-> "no_context"]
              /\ ChatRequests = <<>>

\* a query_contract call whose search of a filled collection succeeded but
\* returned nothing, ended with the fixed response
C7_Witness ==
    /\ QueryDone
    /\ db[req.collection_name] # <<>>
    /\ AggregateRequests # <<>>
    /\ AggregateRequests[1].outcome = "ok"
    /\ searchResults = <<>>
    /\ ret = [kind |-> "no_context"]
    /\ ChatRequests = <<>>

-----------------------------------------------------------------------------
(* Further properties of generate_embeddings *)

FailedRequests == {k \in 1..Len(EmbedRequests) : EmbedRequests[k].outcome = "error"}

\* C11: when the provider call fails for a batch, generate_embeddings raises
\* instead of returning the vectors of the earlier batches, and the failed
\* request is the last one it made: the batch is not submitted again and no
\* later batch is submitted.
C11_ProviderFailureFailsWhole ==
    (EmbedDone /\ FailedRequests # {}) =>
        /\ ret = [kind |-> "raised", error |-> "provider"]
        /\ FailedRequests = {Len(EmbedRequests)}

\* a call of three batches whose first succeeded and whose second failed
C11_Witness ==
    /\ EmbedDone
    /\ Len(ExpectedRequests(AsList(req.texts), req.batch_size)) = 3
    /\ Len(EmbedRequests) = 2
    /\ EmbedRequests[1].outcome = "ok"
    /\ EmbedRequests[2].outcome = "error"
    /\ embAll # <<>>
    /\ ret.kind = "raised"

OverLength(t) == TextLen(Strip(t)) > MaxEmbedChars

SubmittedTexts ==
    UNION {{EmbedRequests[i].input[k] : k \in 1..Len(EmbedRequests[i].input)} :
              i \in 1..Len(EmbedRequests)}

\* C12: every text submitted to the provider is an input text trimmed of its
\* surrounding whitespace and then cut to its first 8000 characters, so none
\* is longer than 8000 characters; an over-length input is submitted in its
\* truncated form, not rejected and not dropped.
C12_TrimmedThenCut ==
    op = "embed" =>
        LET expected == ExpectedRequests(AsList(req.texts), req.batch_size)
        IN  /\ Len(EmbedRequests) <= Len(expected)
            /\ \A i \in 1..Len(EmbedRequests) :
                  EmbedRequests[i].input = expected[i]
            /\ \A t \in SubmittedTexts : TextLen(t) <= MaxEmbedChars
            /\ EmbedReturned =>
                  \A k \in 1..Len(embTexts) :
                      OverLength(embTexts[k]) =>
                          /\ Submitted(embTexts[k]) \in SubmittedTexts
                          /\ TextLen(Submitted(embTexts[k])) = MaxEmbedChars

\* a returned call with an over-length text that begins with whitespace,
\* submitted as its first 8000 characters after trimming
C12_Witness ==
    /\ EmbedReturned
    /\ \E k \in 1..Len(embTexts) :
          /\ OverLength(embTexts[k])
          /\ embTexts[k].pre > 0
          /\ Text(embTexts[k].tag, 0, MaxEmbedChars, 0) \in SubmittedTexts

-----------------------------------------------------------------------------
(* Further properties of ingest_document *)

\* the source-level metadata of the current ingest call
SourceLevel ==
    [key \in {"document_url", "chunking_strategy", "embedding_model",
              "total_chunks"} |->
        CASE key = "document_url" -> S(req.document_url.name)
          [] key = "chunking_strategy" -> S(req.chunking_strategy)
          [] key = "embedding_model" -> S(EmbeddingModel)
          [] key = "total_chunks" -> I(Len(chunks))]

\* the keys the store sets itself, between the chunk's and the source's
StoreKeys == {"chunk_index", "collection_name"}

\* C13: in the metadata of every document a successful ingest call stored,
\* each key of the caller's extra metadata has the caller's value, each other
\* source-level key (document URL, chunking strategy, embedding model, total
\* chunk count) has the source-level value, and every key of the chunk's own
\* metadata is present, with the chunk's value when neither the caller, the
\* source level nor the store (chunk_index, collection_name) sets that key.
C13_MetadataPrecedence ==
    IngestSucceeded =>
        \A i \in 1..Len(StoredByCall) :
            LET md == StoredByCall[i].metadata
                caller == req.metadata_fields
                local == chunks[i].metadata
            IN  /\ DOMAIN md = DOMAIN local \cup StoreKeys
                                 \cup DOMAIN SourceLevel \cup DOMAIN caller
                /\ \A key \in DOMAIN caller : md[key] = caller[key]
                /\ \A key \in DOMAIN SourceLevel \ DOMAIN caller :
                      md[key] = SourceLevel[key]
                /\ \A key \in DOMAIN local \ (DOMAIN caller
                                \cup DOMAIN SourceLevel \cup StoreKeys) :
                      md[key] = local[key]

\* a successful call whose extra metadata collides with the source-level
\* document_url and with chunk_index: the caller's values are stored, beside
\* the untouched source-level and chunk-local keys
C13_Witness ==
    /\ IngestSucceeded
    /\ Len(StoredByCall) >= 1
    /\ "document_url" \in DOMAIN req.metadata_fields
    /\ req.metadata_fields["document_url"] # S(req.document_url.name)
    /\ StoredByCall[1].metadata["document_url"] = req.metadata_fields["document_url"]
    /\ StoredByCall[1].metadata["chunk_index"] = req.metadata_fields["chunk_index"]
    /\ StoredByCall[1].metadata["total_chunks"] = I(Len(chunks))
    /\ StoredByCall[1].metadata["chunk_size"] = chunks[1].metadata["chunk_size"]

-----------------------------------------------------------------------------
(* Properties of MongoDBVectorStore.vector_search, stated on the search   *)
(* tools' invocations                                                      *)

StageKinds(pipeline) == [k \in 1..Len(pipeline) |-> pipeline[k].stage]

\* the metadata filter the current invocation hands to vector_search
GivenFilter == IF op = "search" THEN req.metadata_filter ELSE NoMeta

Searching == op \in {"search", "query"}

SearchAnswered ==
    /\ Searching
    /\ AggregateRequests # <<>>
    /\ AggregateRequests[1].outcome = "ok"

SearchedDocs == db[req.collection_name]

QueryVector == AggregateRequests[1].pipeline[1].arg.queryVector

\* positions of the documents the nearest-neighbour stage fetched: the limit
\* best by score
Fetched ==
    {k \in 1..Len(SearchedDocs) :
        Rank(Scored(SearchedDocs, QueryVector), k) < req.limit}

\* positions of the stored documents that pass the metadata filter and reach
\* the threshold
Eligible ==
    {k \in 1..Len(SearchedDocs) :
        /\ Matches(SearchedDocs[k], GivenFilter)
        /\ Score(QueryVector, SearchedDocs[k].embedding)
             >= req.similarity_threshold}

\* C15: the metadata filter narrows only the documents the nearest-neighbour
\* stage has fetched: the hits are the fetched documents that pass the filter
\* and the threshold, however many stored documents would pass them; so a
\* query can return fewer than limit hits although at least limit stored
\* documents pass (the state C15_Witness).
C15_FilterNarrowsFetched ==
    SearchAnswered =>
        Len(searchResults) = Cardinality(Fetched \cap Eligible)

\* under-fill: fewer hits than limit, although at least limit stored
\* documents pass the filter and the threshold
C15_Witness ==
    /\ SearchDone
    /\ SearchAnswered
    /\ GivenFilter # NoMeta
    /\ Len(searchResults) < req.limit
    /\ Cardinality(Eligible) >= req.limit

\* what vector_search returns for the current query vector, collection,
\* limit and metadata filter when called with the threshold t
HitsAt(t) ==
    VectorSearch(SearchedDocs,
                 BuildPipeline(QueryVector, req.limit, t, GivenFilter), "ok")

ValidThresholds == MinThreshold..MaxThreshold

\* C16: for the query vector, collection contents, limit and metadata filter
\* of an answered search, vector_search returns no more hits for a higher
\* threshold than for a lower one, for every pair of thresholds in [0, 1],
\* 0 included; the hits of the call itself are those of its own threshold.
C16_ThresholdMonotone ==
    SearchAnswered =>
        /\ searchResults = HitsAt(req.similarity_threshold)
        /\ \A lo, hi \in ValidThresholds :
              lo <= hi => Len(HitsAt(hi)) <= Len(HitsAt(lo))

\* an answered search without threshold whose hits shrink, in two steps, to
\* none as the threshold rises
C16_Witness ==
    /\ SearchDone
    /\ SearchAnswered
    /\ req.similarity_threshold = MinThreshold
    /\ Len(HitsAt(DefaultThreshold)) > 0
    /\ Len(HitsAt(DefaultThreshold)) < Len(searchResults)
    /\ HitsAt(MaxThreshold) = <<>>

-----------------------------------------------------------------------------
(* Properties of the store's failure handling and of the four tools *)

Requests(kind) == SelectSeq(log, LAMBDA e : e.kind = kind)

Failed(kind) ==
    \E k \in 1..Len(log) : log[k].kind = kind /\ log[k].outcome = "error"

ListDone == op = "list" /\ pc = "done"

\* C17: a backend failure inside a store operation is answered, not raised:
\* store_embeddings returns the failure payload with stored count 0 (the
\* tool reports it), vector_search returns no hits (the tool goes on as with
\* an empty result), list_collections returns no names and
\* get_collection_stats returns the error payload of its collection; on a
\* healthy database without any collection list_collections returns no
\* names and the tool reports an empty database, not an error.
C17_StoreFailuresAnswered ==
    /\ (IngestDone /\ Failed("insert_many")) =>
          /\ ret.kind = "failed"
          /\ ret.storage.success = FALSE
          /\ ret.storage.chunks_stored = 0
          /\ ret.storage.collection_name = req.collection_name
    /\ (Searching /\ Failed("aggregate")) =>
          /\ searchResults = <<>>
          /\ pc = "done" => ret.kind \in {"no_results", "no_context"}
    /\ (ListDone /\ Failed("list_collection_names")) =>
          ret = [kind |-> "no_collections"]
    /\ (ListDone /\ ~ConnectFailed) =>
          /\ ret.kind \in {"no_collections", "collections"}
          /\ ret.kind = "collections" =>
                /\ Len(ret.stats) = Len(Requests("collStats"))
                /\ \A k \in 1..Len(ret.stats) :
                      LET asked == Requests("collStats")[k]
                      IN  /\ ret.stats[k].collection_name = asked.collection
                          /\ ("error" \in DOMAIN ret.stats[k])
                                <=> (asked.outcome = "error")
          /\ (\A c \in Collections : db[c] = <<>>) =>
                ret = [kind |-> "no_collections"]

\* a list call on a filled database one of whose statistics failed
C17_Witness ==
    /\ ListDone
    /\ ret.kind = "collections"
    /\ Len(ret.stats) = 2
    /\ "error" \in DOMAIN ret.stats[1]
    /\ "document_count" \in DOMAIN ret.stats[2]
    /\ ret.stats[2].document_count = Len(db[ret.names[2]])

ToolOps == {"ingest", "search", "query", "list"}

ToolDone == op \in ToolOps /\ pc = "done"

\* the step that continues an invocation under way
Continue ==
    \/ IngestEmbed
    \/ EmbedBatch
    \/ EmbedReturn
    \/ IngestStore
    \/ SearchQuery
    \/ QuerySearch
    \/ QueryChat

\* C18: every invocation of ingest_document, search_documents, query_contract
\* or list_collections ends by returning a result and never by raising: an
\* invocation under way can always continue, a finished one has returned a
\* report, and after a failed connection at construction, a rejected input, a
\* failed download or processing, or a failed embedding or generative
\* request, that report is the tool's error report.
C18_ToolsAlwaysReturn ==
    /\ (op \in ToolOps /\ pc # "done") => ENABLED Continue
    /\ ToolDone =>
          /\ ret.kind \notin {"none", "raised"}
          /\ (\/ ConnectFailed
              \/ Failed("download")
              \/ Failed("embeddings.create")
              \/ Failed("chat.completions.create"))
                => ret.kind = "error"
          /\ Failed("insert_many") => ret.kind = "failed"

\* a query_contract call whose request to the generative model failed
C18_Witness ==
    /\ QueryDone
    /\ Failed("chat.completions.create")
    /\ ret = [kind |-> "error", error |-> "provider"]

-----------------------------------------------------------------------------
(* Claims about the document processor *)

\* the invocation is an ingest from a URL whose download created the scratch
\* file
ScratchWritten ==
    /\ op = "ingest"
    /\ \E k \in 1..Len(log) : log[k].kind = "download" /\ log[k].wrote

\* C19: once process_document_from_url has returned or raised, the scratch
\* file its download wrote is gone from the scratch directory, whichever of
\* download, partition or chunking failed, and on success.
C19_ScratchDeleted ==
    ScratchWritten => req.document_url.local \notin tmp

\* the document of the invocation was handed to _partition_document_local
PartitionRan == op = "ingest" /\ attempts # <<>>

AllFailed == \A k \in 1..Len(attempts) : attempts[k].outcome = "error"

\* C20: for a PDF the calls of partition use hi_res, fast, auto in that
\* order, a call is made only after every earlier one raised, the elements
\* returned are those of the first call that succeeded, and partitioning
\* fails only when all three calls failed; for another type of file there is
\* exactly one call, with auto.
C20_PartitionFallback ==
    PartitionRan =>
        LET n == Len(attempts)
            pdfOrder == <<"hi_res", "fast", "auto">>
        IN  /\ IF IsPdf(req.document_url)
               THEN /\ n <= 3
                    /\ \A k \in 1..n : attempts[k].strategy = pdfOrder[k]
               ELSE /\ n = 1
                    /\ attempts[1].strategy = "auto"
            /\ \A k \in 1..(n - 1) : attempts[k].outcome = "error"
            /\ attempts[n].outcome = "ok" =>
                  elements = [by |-> attempts[n].strategy]
            /\ AllFailed <=> elements = NoElements
            /\ AllFailed <=> ret = IngestError("partition_failed")
            /\ (AllFailed /\ IsPdf(req.document_url)) => n = 3

\* a PDF for which hi_res and fast raised and auto answered
C20_Witness ==
    /\ PartitionRan
    /\ IsPdf(req.document_url)
    /\ attempts = <<[strategy |-> "hi_res", outcome |-> "error"],
                    [strategy |-> "fast", outcome |-> "error"],
                    [strategy |-> "auto", outcome |-> "ok"]>>
    /\ elements = [by |-> "auto"]
    /\ pc = "processed"

\* partition raised for every strategy it was asked with: the library does
\* not read the document (unsupported or corrupt)
Unsupported == op = "ingest" /\ attempts # <<>> /\ AllFailed

\* the library's chunks of an empty document: none, or blank ones only
EmptyDocuments ==
    {raw \in SeqsUpTo(RawTexts, MaxChunks) :
        \A k \in 1..Len(raw) : ~Truthy(Strip(raw[k]))}

\* the processor returned to ingest_document, and returned no chunk
ProcessedEmpty == IngestDone /\ chunks = <<>> /\ ret.kind # "error"

NothingDone ==
    /\ EmbedRequests = <<>>
    /\ InsertRequests = <<>>
    /\ db = dbPre

-----------------------------------------------------------------------------
(* Claims about chunk sizes and the processor's settings *)

\* the contents of the chunks the current ingest produced, and of the
\* documents it stored
ProducedContents ==
    {chunks[k].content : k \in 1..Len(chunks)}
        \cup {StoredByCall[k].content : k \in 1..Len(StoredByCall)}

\* the call's max_chunk_size reaches the processor whatever came before
SizeArrives == req.impl = "main" \/ req.max_chunk_size # DefaultMaxChunkSize

-----------------------------------------------------------------------------
(* Further claims about ingest *)

\* C23: an ingest only appends to its collection: what the collection held
\* when the call started is still there, unchanged and in place, no other
\* collection is touched, and a successful call with k chunks has made the
\* collection exactly k documents longer, also when the collection already
\* holds the chunks of the same document.
C23_StoreOnlyAppends ==
    op = "ingest" =>
        LET coll == req.collection_name
            before == dbPre[coll]
        IN  /\ \A c \in Collections \ {coll} : db[c] = dbPre[c]
            /\ Len(db[coll]) >= Len(before)
            /\ SubSeq(db[coll], 1, Len(before)) = before
            /\ IngestSucceeded =>
                  /\ Len(db[coll]) = Len(before) + Len(chunks)
                  /\ ret.storage.chunks_stored = Len(chunks)

\* the document the collection already held has been ingested again, and
\* the collection holds its chunk twice
C23_Witness ==
    /\ IngestSucceeded
    /\ req = SeedRequest
    /\ dbPre[req.collection_name] = SeedDocuments
    /\ db[req.collection_name] = SeedDocuments \o SeedDocuments

-----------------------------------------------------------------------------
(* Claims about concurrent ingests *)

\* the documents a call stores when nothing disturbs it
OwnDocuments(c) ==
    LET r == calls[c].req
        cs == ChunksOf(Body(r.document_url), r)
    IN  DocumentsOf(cs, [k \in 1..Len(cs) |-> Vec(CleanText(cs[k].content))], r)

\* a finished call has stored its own document and reported its counts
CallSafe(c) ==
    calls[c].pc = "done" =>
        /\ calls[c].ret.kind = "success"
        /\ calls[c].stored = OwnDocuments(c)
        /\ calls[c].ret.storage.chunks_stored = Len(OwnDocuments(c))

\* C24: of two ingest calls on different documents that run at the same
\* time, each stores exactly the chunks of its own document, with its own
\* vectors and metadata, reports its own counts, and does not fail because
\* of the other, in every interleaving.
C24_ConcurrentIngestsSafe ==
    calls # NoCalls => \A c \in CallIds : CallSafe(c)

-----------------------------------------------------------------------------
(* Claims about state kept between calls *)

\* C25: the chunk size and overlap an ingest call applies, that is, hands
\* to the chunking library, are the max_chunk_size and chunk_overlap
\* arguments of that call, whatever earlier calls were given, in both
\* implementations of the tool.
C25_AppliedSizesAreArguments ==
    (op = "ingest" /\ chunking # NoChunking) =>
        /\ chunking.max_characters = req.max_chunk_size
        /\ chunking.overlap = req.chunk_overlap

-----------------------------------------------------------------------------
(* Claims about the configuration *)

\* the Settings objects get_settings has returned since the cache was last
\* reset
ReturnedSettings ==
    {settings.returned[k] : k \in 1..Len(settings.returned)} \ {Raised}

\* C26: between two resets of the cached instance at most one Settings
\* object is constructed, and every call of get_settings that returns,
\* returns that one object.
C26_SettingsSingleton ==
    /\ settings.builtSinceReset <= 1
    /\ Cardinality(ReturnedSettings) <= 1
    /\ ReturnedSettings \subseteq {settings.cached}
    /\ settings.cached # NoSettings => settings.builtSinceReset = 1

\* after a reset, get_settings has returned the second object three times
C26_Witness ==
    /\ settings.built = 2
    /\ settings.returned = <<2, 2, 2>>

-----------------------------------------------------------------------------
(* Claims about the minimum score and the metadata filter of a query *)

\* the hits among items whose similarity score is at least t
AtLeast(items, t) == SelectSeq(items, LAMBDA h : h.similarity_score >= t)

\* C27: every hit of an answered search has a similarity score of at least
\* the call's threshold, and the hits are exactly those results of the same
\* search without a minimum score that reach the threshold, in the same
\* order: none at or above it is dropped.  This holds for every threshold in
\* [0, 1], 0.0 included.
C27_ThresholdKeepsExactly ==
    SearchAnswered =>
        /\ \A i \in 1..Len(searchResults) :
              searchResults[i].similarity_score >= req.similarity_threshold
        /\ searchResults = AtLeast(HitsAt(MinThreshold), req.similarity_threshold)
        /\ \A t \in ValidThresholds :
              HitsAt(t) = AtLeast(HitsAt(MinThreshold), t)

\* a search with threshold 0.7 that kept a hit and dropped a lower one
C27_Witness ==
    /\ SearchDone
    /\ SearchAnswered
    /\ req.similarity_threshold = DefaultThreshold
    /\ searchResults # <<>>
    /\ Len(searchResults) < Len(HitsAt(MinThreshold))
    /\ \E i \in 1..Len(HitsAt(MinThreshold)) :
          HitsAt(MinThreshold)[i].similarity_score < DefaultThreshold

\* the filter is a mapping of plain keys to values, as in {"user_id": "u1"}
PlainKeys(filter) == \A path \in DOMAIN filter : Len(path) = 1

\* the metadata mapping has filter[k] under every key k of the filter
MetadataHas(metadata, filter) ==
    \A path \in DOMAIN filter :
        /\ path[1] \in DOMAIN metadata
        /\ metadata[path[1]] = filter[path]

\* positions of the fetched documents that reach the threshold and whose
\* stored metadata has the filter's values
FetchedWithMetadata ==
    {k \in Fetched :
        /\ MetadataHas(SearchedDocs[k].metadata, GivenFilter)
        /\ Score(QueryVector, SearchedDocs[k].embedding)
             >= req.similarity_threshold}

\* C28: a metadata filter {k: v} is evaluated against the metadata mapping of
\* the stored documents: every hit has metadata[k] = v, and every fetched
\* document whose stored metadata has metadata[k] = v (and whose score
\* reaches the threshold) is among the hits.
C28_FilterReadsStoredMetadata ==
    (SearchAnswered /\ GivenFilter # NoMeta /\ PlainKeys(GivenFilter)) =>
        /\ \A i \in 1..Len(searchResults) :
              MetadataHas(searchResults[i].metadata, GivenFilter)
        /\ Len(searchResults) = Cardinality(FetchedWithMetadata)

-----------------------------------------------------------------------------
(* Claims about empty texts between chunking and embedding *)

\* an ingest call has handed its chunks to generate_embeddings
IngestEmbedding ==
    /\ op = "ingest"
    /\ chunks # <<>>
    /\ pc \in {"embed_loop", "embed_raised", "embed_returned"}

\* the texts the provider was sent, over all requests of the call
SubmittedCount ==
    LET RECURSIVE Total(_)
        Total(k) == IF k = 0 THEN 0
                    ELSE Total(k - 1) + Len(EmbedRequests[k].input)
    IN  Total(Len(EmbedRequests))

\* C29: the embedding step's empty-text filter and chunk creation agree: every
\* chunk an ingest call hands to generate_embeddings has non-empty content
\* after trimming, so the filter discards none of them, and when the provider
\* has answered every request with one vector per submitted text the
\* returned list is as long as the chunk list and the call does not abort
\* with a count mismatch.
C29_NoChunkFilteredAway ==
    /\ IngestEmbedding =>
          /\ embTexts = [k \in 1..Len(chunks) |-> chunks[k].content]
          /\ \A k \in 1..Len(chunks) : KeepText(chunks[k].content)
          /\ Len(CleanBatch(embTexts)) = Len(embTexts)
    /\ (IngestEmbedding /\ pc = "embed_returned" /\ AllResponsesComplete) =>
          /\ SubmittedCount = Len(chunks)
          /\ Len(embAll) = Len(chunks)
          /\ ~CountMismatch(embAll, chunks)
    /\ (IngestDone /\ AllResponsesComplete /\ ret.kind = "error") =>
          ret.error # "count_mismatch"

\* the provider has answered for the one chunk kept of a document whose
\* first raw chunk was blank
C29_Witness ==
    /\ IngestEmbedding
    /\ pc = "embed_returned"
    /\ AllResponsesComplete
    /\ Len(chunks) = 1
    /\ chunks[1].metadata["chunk_index"] = I(1)
    /\ Len(embAll) = 1

-----------------------------------------------------------------------------
(* Claims about the backend connections of an invocation *)

\* the MongoClients the current invocation has connected (MongoDBVectorStore
\* constructed, server_info answered)
OpenedClients ==
    SelectSeq(Requests("connect"), LAMBDA e : e.outcome = "ok")

\* the calls of MongoDBVectorStore.close (or of its __exit__) the current
\* invocation has made
ClosedClients == Requests("close")

\* C30: every backend connection a tool invocation has opened is closed by
\* the time the invocation returns, on success and on every failure path.
C30_ConnectionsClosedOnReturn ==
    ToolDone => Len(ClosedClients) = Len(OpenedClients)

====
